---- MODULE Spec2Model ----
(***************************************************************************)
(* DocSense RAG backend: hybrid retrieval with RRF fusion, context         *)
(* assembly, the query orchestrator with its generation client, the        *)
(* ingestion orchestrator with the in-memory job tracker, the structure    *)
(* detector with the section-aware chunker and metadata builder, the       *)
(* query analyser, and the document deletion route.                        *)
(*                                                                         *)
(* Nine specifications share the variables of this module:                 *)
(*   SpecSearch  one HybridSearcher.search call on drawn store responses   *)
(*   SpecBuild   two concurrent ContextBuilder.build calls on the shared   *)
(*               builder instance                                          *)
(*   Spec        one RetrievalPipeline.run request, LLMClient included     *)
(*   SpecIngest  ingestion workers, progress callbacks and status polls    *)
(*   SpecChunk   StructureDetector.detect, Chunker.chunk_document and      *)
(*               MetadataBuilder.finalize_chunks on drawn parsed documents *)
(*   SpecAnalyse one QueryAnalyser.analyse call on a drawn question        *)
(*   SpecDelete  one delete_document request on drawn store contents       *)
(*   SpecRanges  one Chunker._get_token_ranges call, turn by turn, and     *)
(*   SpecRangesFair, the same with the loop scheduled fairly               *)
(* Each specification keeps the variables of the others at their idle      *)
(* values.                                                                 *)
(***************************************************************************)
EXTENDS Integers, Sequences, FiniteSets, TLC

(***************************************************************************)
(* The indexed corpus: three child chunks in two documents; c1 and c2      *)
(* share the parent p1.                                                    *)
(***************************************************************************)
Docs == {"d1", "d2"}
Chunks == {"c1", "c2", "c3"}
Parents == {"p1", "p2"}

\* payload["doc_id"] of a chunk
DocOf(c) == IF c = "c3" THEN "d2" ELSE "d1"

\* payload["parent_id"] of a chunk
ParentOf(c) == IF c = "c3" THEN "p2" ELSE "p1"

\* ChunkMetadata payload as stored by the vector store
Payload(c) == [chunk_id |-> c, doc_id |-> DocOf(c), parent_id |-> ParentOf(c)]

\* ParentChunk.text of a stored parent (never empty), as its characters
ParentText(p) == IF p = "p1" THEN <<"a", "b", "c">> ELSE <<"d">>

NoText == <<>>

(***************************************************************************)
(* Bounds of the model and configuration values.                          *)
(***************************************************************************)
\* longest ranking a store holds for one query
MaxHits == 3
\* BM25 scores are drawn from 1..MaxScore
MaxScore == 2
\* longest doc_ids list of a request
MaxDocIds == 2

\* RetrievalConfig (defaults 20/20/20/5), scaled to the corpus
dense_top_k == 2
sparse_top_k == 2
rerank_top_k == 2
final_top_k == 2
rrf_k == 60

VARIABLES
    \* ---- stores ----
    vs_points,       \* chunk ids whose point (payload) the vector store holds
    fs_parents,      \* parent ids the file store holds
    \* ---- HybridSearcher.search ----
    s_ranking,       \* the vector store's ranking for the query vector
    s_index,         \* per document, the BM25 ranking <<chunk_id, score>>
    s_doc_ids,       \* the doc_ids argument
    s_has_fs,        \* whether the searcher was built with a file_store
    s_pc,            \* "idle" | "call" | "done"
    s_out,           \* the returned dict
    \* ---- ContextBuilder (one instance, shared by all requests) ----
    parent_cache,    \* self._parent_cache: per document, the loaded parents
    b_in,            \* per request, the reranked_results argument of build
    b_pc,            \* per request: "idle" | "reset" | "load" | "walk" | "done"
    b_todo,          \* per request, the documents still to load
    b_i,             \* per request, the index of the next candidate to walk
    b_seen,          \* per request, seen_parent_ids
    b_ctx,           \* per request, final_context
    b_miss,          \* per request, whether a lookup of this call found no text
    \* ---- LLMClient.generate (one call) ----
    l_mode,          \* "idle" | "sync" | "stream"
    l_pc,            \* "idle" | "attempt" | "streaming" | "returned" | "raised"
    l_model,         \* payload["model"]: "primary" | "fallback"
    l_attempt,       \* the loop variable attempt of the running retry loop
    l_sent,          \* per model, the upstream requests sent so far
    l_frag,          \* fragments received from the open upstream stream
    l_yield,         \* the fragments the returned generator has yielded
    l_answer_by,     \* the model whose request was answered: "none" | model
    \* ---- RetrievalPipeline.run (one request) ----
    q_question,      \* request.question
    q_doc_ids,       \* request.doc_ids or []
    q_stream,        \* settings.llm.stream
    q_reranker,      \* self.reranker: "Reranker" | "patched"
    q_pc,            \* "idle" | "search" | "rerank" | "build" | "generate" |
                     \* "llm" | "stream_start" | "streaming" | "done" | "error"
    q_reached,       \* the pipeline steps this request has run
    q_cands,         \* candidates
    q_stats,         \* stats_dict
    q_reranked,      \* reranked_results
    q_contexts,      \* contexts
    q_resp,          \* the QueryResponse returned
    q_out,           \* what the returned generator has yielded
    \* ---- ingestion jobs (api/routes/ingest.py, IngestionPipeline.run) ----
    jobs_db,         \* app.state.jobs_db: job id -> IngestionJob
    w_pc,            \* per job: "none" | "rejected" | "queued" | "run" |
                     \* "except" | "wrapper" | "finished"
    w_i,             \* per job: position of run in RunScript
    w_err,           \* per job: the step that raised, or "none"
    w_raised,        \* per job: run has re-raised the failure to its caller
    cb_at,           \* per job: the write the executing progress_callback is at
    calls,           \* per job: the calls of progress_callback so far
    steps_done,      \* per job: the collaborator steps that have returned
    polled,          \* the response of the latest status poll
    \* ---- parse -> detect -> chunk_document -> finalize_chunks of one document ----
    c_blocks,        \* the parser's blocks
    c_toc,           \* the document's native table of contents
    c_pc,            \* "idle" | "parsed" | "detected" | "chunked" | "finalized" |
                     \* "refinalized"
    c_enriched,      \* the blocks with section paths
    c_parents,       \* parents as chunk_document / finalize_chunks left them
    c_children,      \* children as chunk_document / finalize_chunks left them
    c_once,          \* parents and children after the first finalize_chunks
    c_run,           \* 1 or 2: which run over the same input this is
    c_first,         \* what the first run produced
    a_question,      \* analyse: the question, as its words
    a_existing,      \* analyse: the caller's filters
    a_titles,        \* analyse: the section titles the caller knows
    a_pc,            \* "idle" | "called" | "returned"
    a_out,           \* the QueryFilters analyse returned
    \* ---- delete_document (api/routes/documents.py) ----
    bm25_files,      \* the BM25 store's files: <<doc_id, suffix>>
    uploads,         \* doc ids whose PDF the file store holds
    d_doc_id,        \* the doc_id of the request
    d_pc,            \* "idle" | "vectors" | "bm25_pkl" | "bm25_map" | "parents" |
                     \* "pdf" | "returned" | "raised"
    d_before,        \* the stores as the request found them
    d_resp,          \* the response: "none" | "success" | "500"
    \* ---- Chunker._get_token_ranges (one call) ----
    r_total_tokens,  \* total_tokens
    r_size,          \* size
    r_overlap,       \* overlap
    r_s,             \* the loop variable s
    r_ranges,        \* ranges
    r_pc             \* "idle" | "loop" | "returned"

storeVars == <<vs_points, fs_parents>>

searchVars == <<s_ranking, s_index, s_doc_ids, s_has_fs, s_pc, s_out>>

buildVars == <<parent_cache, b_in, b_pc, b_todo, b_i, b_seen, b_ctx, b_miss>>

llmVars == <<l_mode, l_pc, l_model, l_attempt, l_sent, l_frag, l_yield, l_answer_by>>

queryVars == <<q_question, q_doc_ids, q_stream, q_reranker, q_pc, q_reached, q_cands,
               q_stats, q_reranked, q_contexts, q_resp, q_out>>

ingestVars == <<jobs_db, w_pc, w_i, w_err, w_raised, cb_at, calls, steps_done, polled>>

chunkVars == <<c_blocks, c_toc, c_pc, c_enriched, c_parents, c_children, c_once, c_run,
               c_first>>

analyseVars == <<a_question, a_existing, a_titles, a_pc, a_out>>

deleteVars == <<bm25_files, uploads, d_doc_id, d_pc, d_before, d_resp>>

rangesVars == <<r_total_tokens, r_size, r_overlap, r_s, r_ranges, r_pc>>

notIngestVars == <<storeVars, searchVars, buildVars, llmVars, queryVars, chunkVars, analyseVars, deleteVars, rangesVars>>

notLlmVars == <<storeVars, searchVars, buildVars, queryVars, ingestVars, chunkVars, analyseVars, deleteVars, rangesVars>>

notChunkVars == <<storeVars, searchVars, buildVars, llmVars, queryVars, ingestVars, analyseVars, deleteVars, rangesVars>>

notAnalyseVars == <<storeVars, searchVars, buildVars, llmVars, queryVars, ingestVars, chunkVars, deleteVars, rangesVars>>

notDeleteVars == <<searchVars, buildVars, llmVars, queryVars, ingestVars, chunkVars, analyseVars, rangesVars>>

notRangesVars == <<storeVars, searchVars, buildVars, llmVars, queryVars, ingestVars, chunkVars, analyseVars, deleteVars>>

vars == <<storeVars, searchVars, buildVars, llmVars, queryVars, ingestVars, chunkVars, analyseVars, deleteVars, rangesVars>>

(***************************************************************************)
(* Sequence helpers.                                                       *)
(***************************************************************************)
Min(a, b) == IF a < b THEN a ELSE b

Range(s) == {s[i] : i \in DOMAIN s}

\* s[:n]
Take(s, n) == SubSeq(s, 1, Min(n, Len(s)))

Front(s) == SubSeq(s, 1, Len(s) - 1)

Last(s) == s[Len(s)]

\* all sequences over S of length at most n
RECURSIVE SeqsUpTo(_, _)
SeqsUpTo(S, n) ==
    IF n = 0 THEN {<<>>} ELSE SeqsUpTo(S, n - 1) \cup [1..n -> S]

\* sequences over S without repetition, of length at most n
DistinctSeqs(S, n) == {s \in SeqsUpTo(S, n) : Cardinality(Range(s)) = Len(s)}

\* the elements of s satisfying membership in S, in order
RECURSIVE Filter(_, _)
Filter(s, S) ==
    IF s = <<>> THEN <<>>
    ELSE IF s[1] \in S THEN <<s[1]>> \o Filter(Tail(s), S)
    ELSE Filter(Tail(s), S)

\* list(dict.fromkeys(s)): first occurrences, in order
RECURSIVE Dedup(_)
Dedup(s) ==
    IF s = <<>> THEN <<>>
    ELSE LET d == Dedup(Front(s))
         IN IF Last(s) \in Range(d) THEN d ELSE Append(d, Last(s))

(***************************************************************************)
(* sorted(items, key=..., reverse=True): Python's sort is stable, also     *)
(* with reverse=True, so items of equal key keep their input order.  key   *)
(* is a function from positions of s to integers.                          *)
(***************************************************************************)
RECURSIVE SortedDescFrom(_, _, _)
SortedDescFrom(s, key, n) ==
    \* the positions 1..n of s, ordered by key descending, ties by position
    IF n = 0 THEN <<>>
    ELSE LET done == SortedDescFrom(s, key, n - 1)
             ahead == Cardinality({i \in DOMAIN done : key[done[i]] >= key[n]})
         IN SubSeq(done, 1, ahead) \o <<n>> \o SubSeq(done, ahead + 1, Len(done))

SortedDesc(s, key) ==
    LET order == SortedDescFrom(s, key, Len(s))
    IN [i \in DOMAIN s |-> s[order[i]]]

(***************************************************************************)
(* HybridSearcher.search                                                   *)
(***************************************************************************)
\* VectorStore.search(vector, top_k, filters): the ranking restricted to the
\* doc_id filter (set only when doc_ids is non-empty), cut to top_k
vector_store_search(ranking, doc_ids, top_k) ==
    LET allowed == IF doc_ids = <<>> THEN Chunks
                   ELSE {c \in Chunks : DocOf(c) \in Range(doc_ids)}
    IN Take(Filter(ranking, allowed), top_k)

\* BM25Store.search(doc_id, query, top_k): the document's ranking cut to top_k
bm25_store_search(index, d_id, top_k) == Take(index[d_id], top_k)

\* the loop over doc_ids: sparse_hits.extend(hits), in doc_ids order
RECURSIVE sparse_extend(_, _)
sparse_extend(index, doc_ids) ==
    IF doc_ids = <<>> THEN <<>>
    ELSE sparse_extend(index, Front(doc_ids))
            \o bm25_store_search(index, Last(doc_ids), sparse_top_k)

\* sorted(sparse_hits, key=score, reverse=True)[:sparse_top_k]
sparse_arm(index, doc_ids) ==
    LET hits == sparse_extend(index, doc_ids)
    IN Take(SortedDesc(hits, [i \in DOMAIN hits |-> hits[i][2]]), sparse_top_k)

\* the chunk ids of a list of (chunk_id, score) hits
HitIds(hits) == [i \in DOMAIN hits |-> hits[i][1]]

\* 1.0 / (rrf_k + rank) as an exact integer multiple of 1/RrfScale.  Distinct
\* sums of these terms differ by far more than a float rounding error and
\* equal sums are sums of the same terms, so the order of the floats is the
\* order of these integers.
RECURSIVE RrfScaleUpTo(_)
RrfScaleUpTo(n) == IF n = 0 THEN 1 ELSE (rrf_k + n) * RrfScaleUpTo(n - 1)

RrfScale == RrfScaleUpTo(IF dense_top_k > sparse_top_k THEN dense_top_k ELSE sparse_top_k)

rrf_term(rank) == RrfScale \div (rrf_k + rank)

RECURSIVE SumTerms(_)
SumTerms(ranks) ==
    IF ranks = {} THEN 0
    ELSE LET r == CHOOSE x \in ranks : TRUE
         IN rrf_term(r) + SumTerms(ranks \ {r})

\* fused_scores[c_id] after both enumerate loops: one term per list position
\* holding c_id
fused_scores(dense, sparse, c_id) ==
    SumTerms({i \in DOMAIN dense : dense[i] = c_id})
        + SumTerms({j \in DOMAIN sparse : sparse[j][1] = c_id})

\* the keys of fused_scores in insertion order: dense ids, then new sparse ids
fused_keys(dense, sparse) == Dedup(dense \o HitIds(sparse))

\* sorted(fused_scores.items(), key=score, reverse=True)
fused_sorted(dense, sparse) ==
    LET keys == fused_keys(dense, sparse)
    IN SortedDesc(keys, [i \in DOMAIN keys |-> fused_scores(dense, sparse, keys[i])])

\* fused_sorted[:rerank_top_k]
top_candidates(dense, sparse) == Take(fused_sorted(dense, sparse), rerank_top_k)

\* VectorStore.get_by_ids: the ids whose point the store holds
get_by_ids(points, ids) == {c \in ids : c \in points}

\* payloads without the batched lookup: only the dense arm's payloads
resolved_payloads_dense_only(points, dense, top) == Range(dense)

\* the keys of payloads after step 5: the dense hits plus what get_by_ids
\* returns for the top candidates the dense arm did not deliver
resolved_payloads(points, dense, top) ==
    Range(dense) \cup get_by_ids(points, Range(top) \ Range(dense))

\* FileStore.load_parent_chunks(doc_id, parent_ids): the requested parents of
\* that document which the store holds
load_parent_chunks(parents, d_id, p_ids) ==
    {p \in p_ids : p \in parents /\ \E c \in Chunks : DocOf(c) = d_id /\ ParentOf(c) = p}

\* docs_to_resolve and parent_cache of one search call
search_parent_cache(parents, has_fs, resolved) ==
    [d \in Docs |->
        IF has_fs
        THEN load_parent_chunks(parents, d, {ParentOf(c) : c \in {x \in resolved : DocOf(x) = d}})
        ELSE {}]

\* step 6: one record per top candidate that has a payload, in rank order
final_results(points, parents, has_fs, dense, sparse) ==
    LET top == top_candidates(dense, sparse)
        have == resolved_payloads(points, dense, top)
        cache == search_parent_cache(parents, has_fs, Range(top) \cap have)
        kept == Filter(top, have)
    IN [i \in DOMAIN kept |->
          [chunk_id |-> kept[i],
           rrf_score |-> fused_scores(dense, sparse, kept[i]),
           metadata |-> Payload(kept[i]),
           text |-> IF ParentOf(kept[i]) \in cache[DocOf(kept[i])]
                    THEN ParentText(ParentOf(kept[i])) ELSE NoText]]

\* the dict search returns
search(points, parents, has_fs, ranking, index, doc_ids) ==
    LET dense == vector_store_search(ranking, doc_ids, dense_top_k)
        sparse == sparse_arm(index, doc_ids)
    IN [results |-> final_results(points, parents, has_fs, dense, sparse),
        stats |-> [dense_hits |-> Len(dense),
                   sparse_hits |-> Len(sparse),
                   fused_candidates |-> Len(fused_keys(dense, sparse))]]

NoOutput == [results |-> <<>>, stats |-> [dense_hits |-> 0, sparse_hits |-> 0,
                                          fused_candidates |-> 0]]

\* the BM25 rankings one document's index can return: its chunks, each at most
\* once, scores positive and non-increasing
Bm25Rankings(d) ==
    {h \in SeqsUpTo({c \in Chunks : DocOf(c) = d} \X (1..MaxScore), MaxHits) :
        /\ Cardinality(Range(HitIds(h))) = Len(h)
        /\ \A i \in 1..(Len(h) - 1) : h[i][2] >= h[i + 1][2]}

SearchIdle ==
    /\ s_ranking = <<>>
    /\ s_index = [d \in Docs |-> <<>>]
    /\ s_doc_ids = <<>>
    /\ s_has_fs = TRUE
    /\ s_pc = "idle"
    /\ s_out = NoOutput

SearchInit ==
    /\ vs_points \in SUBSET Chunks
    /\ fs_parents \in {Parents, {"p2"}}
    /\ s_ranking \in DistinctSeqs(vs_points, MaxHits)
    /\ s_index \in [Docs -> UNION {Bm25Rankings(d) : d \in Docs}]
    /\ \A d \in Docs : s_index[d] \in Bm25Rankings(d)
    /\ s_doc_ids \in SeqsUpTo(Docs, MaxDocIds)
    /\ s_has_fs \in BOOLEAN
    /\ s_pc = "call"
    /\ s_out = NoOutput

Search ==
    /\ s_pc = "call"
    /\ s_out' = search(vs_points, fs_parents, s_has_fs, s_ranking, s_index, s_doc_ids)
    /\ s_pc' = "done"
    /\ UNCHANGED <<storeVars, s_ranking, s_index, s_doc_ids, s_has_fs, buildVars, llmVars, queryVars, ingestVars, chunkVars, analyseVars, deleteVars, rangesVars>>


(***************************************************************************)
(* ContextBuilder.build.  The query route is a sync def, so requests run   *)
(* on worker threads and share the pipeline's one ContextBuilder; a call   *)
(* is modelled statement by statement: the cache reset, one load per       *)
(* document, one loop iteration per candidate.                             *)
(***************************************************************************)
Reqs == {"r1", "r2"}

\* longest reranked list handed to build
MaxReranked == 3

EmptyCache == [d \in Docs |-> {}]

\* a reranked candidate list over the given chunk ids, scores descending
Reranked(ids) ==
    [i \in DOMAIN ids |-> [chunk_id |-> ids[i],
                           metadata |-> Payload(ids[i]),
                           rerank_score |-> Len(ids) + 1 - i]]

\* the keys of docs_to_parents, in insertion order
build_docs(reranked) == Dedup([i \in DOMAIN reranked |-> reranked[i].metadata.doc_id])

\* docs_to_parents[d_id]
build_parent_ids(reranked, d_id) ==
    {reranked[i].metadata.parent_id :
        i \in {j \in DOMAIN reranked : reranked[j].metadata.doc_id = d_id}}

\* one iteration of the candidate loop without the seen_parent_ids update
walk_step_no_seen(res, cache, st) ==
    LET parent_id == res.metadata.parent_id
    IN IF parent_id \in st.seen THEN st
       ELSE IF parent_id \in cache[res.metadata.doc_id]
            THEN [st EXCEPT !.ctx = Append(st.ctx,
                                [child_chunk_id |-> res.chunk_id,
                                 parent_text |-> ParentText(parent_id),
                                 metadata |-> res.metadata,
                                 rerank_score |-> res.rerank_score])]
            ELSE [st EXCEPT !.miss = TRUE]

\* one iteration of the candidate loop on the cache as it is at that moment;
\* st = [seen, ctx, miss]
walk_step(res, cache, st) ==
    LET parent_id == res.metadata.parent_id
        doc_cache == cache[res.metadata.doc_id]
        parent_text == IF parent_id \in doc_cache THEN ParentText(parent_id) ELSE NoText
    IN IF parent_id \in st.seen THEN st
       ELSE IF parent_text # NoText
            THEN [seen |-> st.seen \cup {parent_id},
                  ctx |-> Append(st.ctx, [child_chunk_id |-> res.chunk_id,
                                          parent_text |-> parent_text,
                                          metadata |-> res.metadata,
                                          rerank_score |-> res.rerank_score]),
                  miss |-> st.miss]
            ELSE [st EXCEPT !.miss = TRUE]

\* the cache after the reset and every load of one call that nothing interrupts
loaded_cache(parents, reranked) ==
    [d \in Docs |->
        IF d \in Range(build_docs(reranked))
        THEN load_parent_chunks(parents, d, build_parent_ids(reranked, d))
        ELSE {}]

\* the candidate loop over reranked[1..n]; candidate i reads caches[i]
RECURSIVE walk(_, _, _)
walk(reranked, caches, n) ==
    IF n = 0 THEN [seen |-> {}, ctx |-> <<>>, miss |-> FALSE]
    ELSE walk_step(reranked[n], caches[n], walk(reranked, caches, n - 1))

\* ContextBuilder.build of a request that runs alone
build(parents, reranked) ==
    walk(reranked, [i \in DOMAIN reranked |-> loaded_cache(parents, reranked)],
         Len(reranked)).ctx

BuildIdleRequests ==
    /\ b_in = [r \in Reqs |-> <<>>]
    /\ b_pc = [r \in Reqs |-> "idle"]
    /\ b_todo = [r \in Reqs |-> <<>>]
    /\ b_i = [r \in Reqs |-> 1]
    /\ b_seen = [r \in Reqs |-> {}]
    /\ b_ctx = [r \in Reqs |-> <<>>]
    /\ b_miss = [r \in Reqs |-> FALSE]

BuildIdle == parent_cache = EmptyCache /\ BuildIdleRequests

\* both requests have entered build with their reranked lists (never empty:
\* run calls build only after a non-empty rerank)
BuildInit ==
    /\ vs_points = Chunks
    /\ fs_parents \in SUBSET Parents
    /\ parent_cache = EmptyCache
    /\ b_in \in [Reqs -> {Reranked(ids) : ids \in DistinctSeqs(Chunks, MaxReranked) \ {<<>>}}]
    /\ b_pc = [r \in Reqs |-> "reset"]
    /\ b_todo = [r \in Reqs |-> <<>>]
    /\ b_i = [r \in Reqs |-> 1]
    /\ b_seen = [r \in Reqs |-> {}]
    /\ b_ctx = [r \in Reqs |-> <<>>]
    /\ b_miss = [r \in Reqs |-> FALSE]

\* self._parent_cache = {}
BuildReset(r) ==
    /\ b_pc[r] = "reset"
    /\ parent_cache' = EmptyCache
    /\ b_todo' = [b_todo EXCEPT ![r] = build_docs(b_in[r])]
    /\ b_pc' = [b_pc EXCEPT ![r] = IF b_in[r] = <<>> THEN "done" ELSE "load"]
    /\ UNCHANGED <<storeVars, searchVars, llmVars, ingestVars, chunkVars, analyseVars, deleteVars, rangesVars, queryVars, b_in, b_i, b_seen, b_ctx, b_miss>>

\* self._parent_cache[d_id] = self.file_store.load_parent_chunks(d_id, ...)
BuildLoad(r) ==
    /\ b_pc[r] = "load"
    /\ LET d_id == Head(b_todo[r])
       IN parent_cache' = [parent_cache EXCEPT ![d_id] =
              load_parent_chunks(fs_parents, d_id, build_parent_ids(b_in[r], d_id))]
    /\ b_todo' = [b_todo EXCEPT ![r] = Tail(b_todo[r])]
    /\ b_pc' = [b_pc EXCEPT ![r] = IF Tail(b_todo[r]) = <<>> THEN "walk" ELSE "load"]
    /\ UNCHANGED <<storeVars, searchVars, llmVars, ingestVars, chunkVars, analyseVars, deleteVars, rangesVars, queryVars, b_in, b_i, b_seen, b_ctx, b_miss>>

\* one iteration of "for res in reranked_results"; the return after the last
BuildWalk(r) ==
    /\ b_pc[r] = "walk"
    /\ LET st == walk_step(b_in[r][b_i[r]], parent_cache,
                           [seen |-> b_seen[r], ctx |-> b_ctx[r], miss |-> b_miss[r]])
       IN /\ b_seen' = [b_seen EXCEPT ![r] = st.seen]
          /\ b_ctx' = [b_ctx EXCEPT ![r] = st.ctx]
          /\ b_miss' = [b_miss EXCEPT ![r] = st.miss]
    /\ b_i' = [b_i EXCEPT ![r] = b_i[r] + 1]
    /\ b_pc' = [b_pc EXCEPT ![r] = IF b_i[r] = Len(b_in[r]) THEN "done" ELSE "walk"]
    /\ UNCHANGED <<storeVars, searchVars, llmVars, ingestVars, chunkVars, analyseVars, deleteVars, rangesVars, queryVars, parent_cache, b_in, b_todo>>

(***************************************************************************)
(* LLMClient.generate.  Each upstream request ends as the collaborator     *)
(* decides: HTTP 429, another failure (transport error, error status), or  *)
(* a response; a streamed response delivers fragments one by one and can   *)
(* break off before [DONE].                                                *)
(***************************************************************************)
Models == {"primary", "fallback"}

\* self.max_retries
max_retries == 3

\* most content fragments one call of generate delivers
MaxFragments == 2

\* settings.llm.fallback_model is set and differs from settings.llm.model
fallback_configured == TRUE

\* the i-th content fragment of a model's response
Fragment(model, i) == <<model, i>>

LlmIdle ==
    /\ l_mode = "idle"
    /\ l_pc = "idle"
    /\ l_model = "primary"
    /\ l_attempt = 0
    /\ l_sent = [m \in Models |-> 0]
    /\ l_frag = 0
    /\ l_yield = <<>>
    /\ l_answer_by = "none"

\* generate(messages, stream): payload["model"] = self.config.model
LlmCall(stream) ==
    /\ l_mode' = IF stream THEN "stream" ELSE "sync"
    /\ l_pc' = "attempt"
    /\ l_model' = "primary"
    /\ l_attempt' = 0
    /\ UNCHANGED <<l_sent, l_frag, l_yield, l_answer_by>>

\* an exception leaves the retry loop of _sync_response / _stream_response:
\* generate and _stream_with_fallback catch it around the primary call and
\* start over with the fallback model; raised by the fallback call it leaves
\* generate
LlmLoopRaised ==
    IF l_model = "primary" /\ fallback_configured
    THEN /\ l_model' = "fallback"
         /\ l_attempt' = 0
         /\ l_pc' = "attempt"
    ELSE /\ l_pc' = "raised"
         /\ UNCHANGED <<l_model, l_attempt>>

\* the except branch of both loops: raise on the last attempt, else retry
LlmAttemptFailed ==
    IF l_attempt = max_retries - 1
    THEN LlmLoopRaised
    ELSE /\ l_attempt' = l_attempt + 1
         /\ l_pc' = "attempt"
         /\ UNCHANGED l_model

\* _sync_response: the request is answered
SyncAnswered ==
    /\ l_mode = "sync" /\ l_pc = "attempt"
    /\ l_sent' = [l_sent EXCEPT ![l_model] = @ + 1]
    /\ l_pc' = "returned"
    /\ l_answer_by' = l_model
    /\ UNCHANGED <<l_mode, l_model, l_attempt, l_frag, l_yield>>
    /\ UNCHANGED notLlmVars

\* _sync_response: status 429: sleep and continue; after the last attempt
\* the loop ends and "Failed after maximum retries" is raised
SyncRateLimited ==
    /\ l_mode = "sync" /\ l_pc = "attempt"
    /\ l_sent' = [l_sent EXCEPT ![l_model] = @ + 1]
    /\ IF l_attempt = max_retries - 1
       THEN LlmLoopRaised
       ELSE /\ l_attempt' = l_attempt + 1
            /\ l_pc' = "attempt"
            /\ UNCHANGED l_model
    /\ UNCHANGED <<l_mode, l_frag, l_yield, l_answer_by>>
    /\ UNCHANGED notLlmVars

\* _sync_response: the request raises
SyncFailed ==
    /\ l_mode = "sync" /\ l_pc = "attempt"
    /\ l_sent' = [l_sent EXCEPT ![l_model] = @ + 1]
    /\ LlmAttemptFailed
    /\ UNCHANGED <<l_mode, l_frag, l_yield, l_answer_by>>
    /\ UNCHANGED notLlmVars

\* _stream_response: the stream opens with a success status
StreamOpened ==
    /\ l_mode = "stream" /\ l_pc = "attempt"
    /\ l_sent' = [l_sent EXCEPT ![l_model] = @ + 1]
    /\ l_pc' = "streaming"
    /\ l_frag' = 0
    /\ UNCHANGED <<l_mode, l_model, l_attempt, l_yield, l_answer_by>>
    /\ UNCHANGED notLlmVars

\* _stream_response: status 429: sleep and continue; after the last attempt
\* the loop ends and the generator finishes without raising, so that
\* _stream_with_fallback finishes too
StreamRateLimited ==
    /\ l_mode = "stream" /\ l_pc = "attempt"
    /\ l_sent' = [l_sent EXCEPT ![l_model] = @ + 1]
    /\ IF l_attempt = max_retries - 1
       THEN /\ l_pc' = "returned"
            /\ UNCHANGED <<l_model, l_attempt>>
       ELSE /\ l_attempt' = l_attempt + 1
            /\ l_pc' = "attempt"
            /\ UNCHANGED l_model
    /\ UNCHANGED <<l_mode, l_frag, l_yield, l_answer_by>>
    /\ UNCHANGED notLlmVars

\* _stream_response: opening the stream raises (transport, error status)
StreamOpenFailed ==
    /\ l_mode = "stream" /\ l_pc = "attempt"
    /\ l_sent' = [l_sent EXCEPT ![l_model] = @ + 1]
    /\ LlmAttemptFailed
    /\ UNCHANGED <<l_mode, l_frag, l_yield, l_answer_by>>
    /\ UNCHANGED notLlmVars

\* _stream_response: iter_lines raises before [DONE]
StreamBroken ==
    /\ l_mode = "stream" /\ l_pc = "streaming"
    /\ LlmAttemptFailed
    /\ UNCHANGED <<l_mode, l_sent, l_frag, l_yield, l_answer_by>>
    /\ UNCHANGED notLlmVars

\* _stream_response: [DONE] (or the end of the lines): return
StreamDone ==
    /\ l_mode = "stream" /\ l_pc = "streaming"
    /\ l_pc' = "returned"
    /\ l_answer_by' = l_model
    /\ UNCHANGED <<l_mode, l_model, l_attempt, l_sent, l_frag, l_yield>>
    /\ UNCHANGED notLlmVars

(***************************************************************************)
(* RetrievalPipeline.run                                                   *)
(***************************************************************************)
Questions == {"q1", "q2"}

\* the length of a citation preview (parent_text[:200]), scaled to the texts
PreviewLen == 2

\* request.doc_ids or []: absent, one document, both documents
QueryDocIds == {<<>>, <<"d1">>, <<"d1", "d2">>}

NotFoundAnswer == "not found in document"

\* settings.llm.model
ConfiguredModel == "primary"

\* the content of an answered request, by the answering model
Answer(model) == IF model = "primary" THEN "answer of primary" ELSE "answer of fallback"

NoStats == [dense_hits |-> 0, sparse_hits |-> 0, fused_candidates |-> 0,
            reranked_from |-> 0, final_count |-> 0]

NoResponse == [question |-> "", answer |-> "", citations |-> <<>>, model_used |-> "",
               retrieval_stats |-> NoStats]

\* _not_found_response that reports stats_dict's final_count
not_found_response_stale_count(question, stats_dict) ==
    [question |-> question,
     answer |-> NotFoundAnswer,
     citations |-> <<>>,
     model_used |-> ConfiguredModel,
     retrieval_stats |-> stats_dict]

_not_found_response(question, stats_dict) ==
    [question |-> question,
     answer |-> NotFoundAnswer,
     citations |-> <<>>,
     model_used |-> ConfiguredModel,
     retrieval_stats |-> [dense_hits |-> stats_dict.dense_hits,
                          sparse_hits |-> stats_dict.sparse_hits,
                          fused_candidates |-> stats_dict.fused_candidates,
                          reranked_from |-> stats_dict.reranked_from,
                          final_count |-> 0]]

\* _assemble_response that copies final_count from stats_dict
assemble_response_stale_count(question, answer, contexts, stats_dict) ==
    [question |-> question,
     answer |-> answer,
     citations |-> [i \in DOMAIN contexts |->
                      [doc_id |-> contexts[i].metadata.doc_id,
                       chunk_text_preview |-> Take(contexts[i].parent_text, PreviewLen),
                       relevance_score |-> contexts[i].rerank_score]],
     model_used |-> ConfiguredModel,
     retrieval_stats |-> stats_dict]

\* RetrievalPipeline._assemble_response
_assemble_response(question, answer, contexts, stats_dict) ==
    [question |-> question,
     answer |-> answer,
     citations |-> [i \in DOMAIN contexts |->
                      [doc_id |-> contexts[i].metadata.doc_id,
                       chunk_text_preview |-> Take(contexts[i].parent_text, PreviewLen),
                       relevance_score |-> contexts[i].rerank_score]],
     model_used |-> ConfiguredModel,
     retrieval_stats |-> [dense_hits |-> stats_dict.dense_hits,
                          sparse_hits |-> stats_dict.sparse_hits,
                          fused_candidates |-> stats_dict.fused_candidates,
                          reranked_from |-> stats_dict.reranked_from,
                          final_count |-> Len(contexts)]]

\* metadata_chunk.model_dump_json() + "\n"
metadata_frame(response) == [json |-> response, newline |-> TRUE]

\* a stream_wrapper that starts with the generation fragments
stream_head_without_metadata(question, contexts, stats_dict) == <<>>

\* what stream_wrapper yields before it calls generate
stream_head(question, contexts, stats_dict) ==
    <<metadata_frame(_assemble_response(question, "", contexts, stats_dict))>>

\* yield str(chunk)
stream_forward(chunk) == chunk

\* Reranker.rerank, lines 43-49: attach the scores, sort, cut to final_top_k
rerank_sorted(candidates, scores) ==
    LET scored == [i \in DOMAIN candidates |->
                      [chunk_id |-> candidates[i].chunk_id,
                       rrf_score |-> candidates[i].rrf_score,
                       metadata |-> candidates[i].metadata,
                       text |-> candidates[i].text,
                       rerank_score |-> scores[i]]]
    IN Take(SortedDesc(scored, scores), final_top_k)

QueryIdle ==
    /\ q_question = ""
    /\ q_doc_ids = <<>>
    /\ q_stream = FALSE
    /\ q_reranker = "Reranker"
    /\ q_pc = "idle"
    /\ q_reached = {}
    /\ q_cands = <<>>
    /\ q_stats = NoStats
    /\ q_reranked = <<>>
    /\ q_contexts = <<>>
    /\ q_resp = NoResponse
    /\ q_out = <<>>

\* a request arrives; doc_ids None or absent becomes []
QueryInit ==
    /\ vs_points = Chunks
    /\ fs_parents \in {Parents, {"p2"}}
    /\ parent_cache = EmptyCache
    /\ q_question \in Questions
    /\ q_doc_ids \in QueryDocIds
    /\ q_stream \in BOOLEAN
    /\ q_reranker \in {"Reranker", "patched"}
    /\ q_pc = "search"
    /\ q_reached = {}
    /\ q_cands = <<>>
    /\ q_stats = NoStats
    /\ q_reranked = <<>>
    /\ q_contexts = <<>>
    /\ q_resp = NoResponse
    /\ q_out = <<>>

\* steps 1-3: the searcher's output and the no-results guard
RunSearch ==
    /\ q_pc = "search"
    /\ \E ranking \in DistinctSeqs(vs_points, MaxHits),
          index \in [Docs -> UNION {Bm25Rankings(d) : d \in Docs}] :
          /\ \A d \in Docs : index[d] \in Bm25Rankings(d)
          /\ LET out == search(vs_points, fs_parents, TRUE, ranking, index, q_doc_ids)
                 stats_dict == [NoStats EXCEPT
                                   !.dense_hits = out.stats.dense_hits,
                                   !.sparse_hits = out.stats.sparse_hits,
                                   !.fused_candidates = out.stats.fused_candidates]
             IN /\ q_cands' = out.results
                /\ q_stats' = stats_dict
                /\ IF out.results = <<>>
                   THEN /\ q_resp' = _not_found_response(q_question, stats_dict)
                        /\ q_pc' = "done"
                   ELSE /\ q_pc' = "rerank"
                        /\ UNCHANGED q_resp
    /\ q_reached' = q_reached \cup {"search"}
    /\ UNCHANGED <<storeVars, searchVars, buildVars, ingestVars, chunkVars, analyseVars, deleteVars, rangesVars, llmVars, q_question, q_doc_ids,
                   q_stream, q_reranker, q_reranked, q_contexts, q_out>>

\* step 4 with the class Reranker: rerank reads c["payload"], a key the
\* searcher's records do not have, and raises KeyError out of run
RunRerankRaises ==
    /\ q_pc = "rerank"
    /\ q_reranker = "Reranker"
    /\ \E i \in DOMAIN q_cands : "payload" \notin DOMAIN q_cands[i]
    /\ q_pc' = "error"
    /\ q_reached' = q_reached \cup {"rerank"}
    /\ UNCHANGED <<storeVars, searchVars, buildVars, ingestVars, chunkVars, analyseVars, deleteVars, rangesVars, llmVars, q_question, q_doc_ids,
                   q_stream, q_reranker, q_cands, q_stats, q_reranked, q_contexts,
                   q_resp, q_out>>

\* step 4 with a reranker that returns (a stand-in as the pipeline tests patch
\* in): scores from the scoring collaborator, then the stats update
RunRerank ==
    /\ q_pc = "rerank"
    /\ q_reranker = "patched"
    /\ \E scores \in [DOMAIN q_cands -> 1..MaxScore] :
          LET reranked_results == rerank_sorted(q_cands, scores)
          IN /\ q_reranked' = reranked_results
             /\ q_stats' = [q_stats EXCEPT !.reranked_from = Len(q_cands),
                                           !.final_count = Len(reranked_results)]
    /\ q_pc' = "build"
    /\ q_reached' = q_reached \cup {"rerank"}
    /\ UNCHANGED <<storeVars, searchVars, buildVars, ingestVars, chunkVars, analyseVars, deleteVars, rangesVars, llmVars, q_question, q_doc_ids,
                   q_stream, q_reranker, q_cands, q_contexts, q_resp, q_out>>

\* step 5 and its guard.  build runs on the shared builder: each lookup of
\* the candidate loop reads the cache this call loaded, or a cache that the
\* build of a concurrent request has reset in between (SpecBuild has the
\* interleaving itself).
RunBuild ==
    /\ q_pc = "build"
    /\ \E own \in SUBSET DOMAIN q_reranked :
          LET loaded == loaded_cache(fs_parents, q_reranked)
              caches == [i \in DOMAIN q_reranked |->
                            IF i \in own THEN loaded ELSE EmptyCache]
              contexts == walk(q_reranked, caches, Len(q_reranked)).ctx
          IN /\ q_contexts' = contexts
             /\ IF contexts = <<>>
                THEN /\ q_resp' = _not_found_response(q_question, q_stats)
                     /\ q_pc' = "done"
                ELSE /\ q_pc' = "generate"
                     /\ UNCHANGED q_resp
    /\ parent_cache' = loaded_cache(fs_parents, q_reranked)
    /\ q_reached' = q_reached \cup {"build"}
    /\ UNCHANGED <<storeVars, searchVars, llmVars, ingestVars, chunkVars, analyseVars, deleteVars, rangesVars, b_in, b_pc, b_todo, b_i, b_seen,
                   b_ctx, b_miss, q_question, q_doc_ids, q_stream, q_reranker,
                   q_cands, q_stats, q_reranked, q_out>>

\* steps 6-7, synchronous: answer = self.llm_client.generate(messages, False)
RunGenerateSync ==
    /\ q_pc = "generate"
    /\ ~q_stream
    /\ LlmCall(FALSE)
    /\ q_pc' = "llm"
    /\ q_reached' = q_reached \cup {"generate"}
    /\ UNCHANGED <<storeVars, searchVars, buildVars, ingestVars, chunkVars, analyseVars, deleteVars, rangesVars, q_question, q_doc_ids, q_stream,
                   q_reranker, q_cands, q_stats, q_reranked, q_contexts, q_resp, q_out>>

\* step 8: generate returned; the response is assembled and returned
RunAssemble ==
    /\ q_pc = "llm"
    /\ l_pc = "returned"
    /\ q_resp' = _assemble_response(q_question, Answer(l_answer_by), q_contexts, q_stats)
    /\ q_pc' = "done"
    /\ UNCHANGED <<storeVars, searchVars, buildVars, ingestVars, chunkVars, analyseVars, deleteVars, rangesVars, llmVars, q_question, q_doc_ids,
                   q_stream, q_reranker, q_reached, q_cands, q_stats, q_reranked,
                   q_contexts, q_out>>

\* generate raised: the exception leaves run (sync) or the generator (stream)
RunGenerateRaised ==
    /\ q_pc \in {"llm", "streaming"}
    /\ l_pc = "raised"
    /\ q_pc' = "error"
    /\ UNCHANGED <<storeVars, searchVars, buildVars, ingestVars, chunkVars, analyseVars, deleteVars, rangesVars, llmVars, q_question, q_doc_ids,
                   q_stream, q_reranker, q_reached, q_cands, q_stats, q_reranked,
                   q_contexts, q_resp, q_out>>

\* step 7, streaming: return stream_wrapper(); nothing of it has run yet.
\* Of run's locals the generator closes over request, contexts, stats_dict
\* and messages; candidates and reranked_results end with the call.
RunReturnStream ==
    /\ q_pc = "generate"
    /\ q_stream
    /\ q_pc' = "stream_start"
    /\ q_cands' = <<>>
    /\ q_reranked' = <<>>
    /\ UNCHANGED <<storeVars, searchVars, buildVars, ingestVars, chunkVars, analyseVars, deleteVars, rangesVars, llmVars, q_question, q_doc_ids,
                   q_stream, q_reranker, q_reached, q_stats, q_contexts, q_resp, q_out>>

\* the consumer's first pull: stream_wrapper yields the metadata frame; its
\* next pull enters the loop over self.llm_client.generate(messages, True)
StreamWrapperHead ==
    /\ q_pc = "stream_start"
    /\ q_out' = stream_head(q_question, q_contexts, q_stats)
    /\ LlmCall(TRUE)
    /\ q_pc' = "streaming"
    /\ q_reached' = q_reached \cup {"generate"}
    /\ UNCHANGED <<storeVars, searchVars, buildVars, ingestVars, chunkVars, analyseVars, deleteVars, rangesVars, q_question, q_doc_ids, q_stream,
                   q_reranker, q_cands, q_stats, q_reranked, q_contexts, q_resp>>

\* _stream_response yields a content fragment, _stream_with_fallback passes
\* it on and stream_wrapper yields str(chunk)
StreamFragment ==
    /\ l_mode = "stream" /\ l_pc = "streaming"
    /\ Len(l_yield) < MaxFragments
    /\ l_frag' = l_frag + 1
    /\ l_yield' = Append(l_yield, Fragment(l_model, l_frag + 1))
    /\ q_out' = Append(q_out, stream_forward(Fragment(l_model, l_frag + 1)))
    /\ UNCHANGED <<storeVars, searchVars, buildVars, ingestVars, chunkVars, analyseVars, deleteVars, rangesVars, l_mode, l_pc, l_model, l_attempt,
                   l_sent, l_answer_by, q_question, q_doc_ids, q_stream, q_reranker,
                   q_pc, q_reached, q_cands, q_stats, q_reranked, q_contexts, q_resp>>

\* the generator of generate is exhausted: stream_wrapper ends
StreamWrapperEnd ==
    /\ q_pc = "streaming"
    /\ l_pc = "returned"
    /\ q_pc' = "done"
    /\ UNCHANGED <<storeVars, searchVars, buildVars, ingestVars, chunkVars, analyseVars, deleteVars, rangesVars, llmVars, q_question, q_doc_ids,
                   q_stream, q_reranker, q_reached, q_cands, q_stats, q_reranked,
                   q_contexts, q_resp, q_out>>

(***************************************************************************)
(* Ingestion jobs: ingest_file, progress_callback,                         *)
(* run_pipeline_with_cleanup, get_ingest_status and IngestionPipeline.run. *)
(* The background task of a job and the status polls run on pool threads;  *)
(* a step of the model is what one thread does between two accesses of     *)
(* the job entry.                                                          *)
(***************************************************************************)
Jobs == {"j1", "j2"}

\* the collaborator calls of IngestionPipeline.run, in the order of the code
Steps == <<"save_pdf", "parse", "detect", "chunk_document", "finalize_chunks",
           "embed_chunks", "upsert", "bm25_build", "save_parent_chunks">>

Report(percent, text) == [op |-> "report", percent |-> percent, message |-> <<text>>]

Call(step) == [op |-> "call", step |-> step]

\* the body of run with the last index write after the completion report
RunScriptCompletionEarly ==
    <<Report(5, "Starting processing"),
      Call("save_pdf"),
      Report(8, "PDF saved to storage"),
      Report(10, "Parsing PDF layout"),
      Call("parse"),
      Report(25, "Extracted n blocks"),
      Report(30, "Detecting document structure"),
      Call("detect"),
      Report(35, "Structure enrichment complete"),
      Report(40, "Creating parent-child chunks"),
      Call("chunk_document"),
      Report(50, "Generated n parents and m children"),
      Report(55, "Finalizing metadata and IDs"),
      Call("finalize_chunks"),
      Report(60, "Metadata finalized"),
      Report(65, "Generating embeddings (this may take a moment)"),
      Call("embed_chunks"),
      Report(85, "Embedding complete"),
      Report(90, "Indexing vectors in Qdrant"),
      Call("upsert"),
      Report(95, "Building BM25 index"),
      Call("bm25_build"),
      Report(98, "Saving parent chunks for context retrieval"),
      Report(100, "Ingestion completed successfully"),
      Call("save_parent_chunks")>>

\* the body of the try block of run: update_progress calls and steps
RunScript ==
    <<Report(5, "Starting processing"),
      Call("save_pdf"),
      Report(8, "PDF saved to storage"),
      Report(10, "Parsing PDF layout"),
      Call("parse"),
      Report(25, "Extracted n blocks"),
      Report(30, "Detecting document structure"),
      Call("detect"),
      Report(35, "Structure enrichment complete"),
      Report(40, "Creating parent-child chunks"),
      Call("chunk_document"),
      Report(50, "Generated n parents and m children"),
      Report(55, "Finalizing metadata and IDs"),
      Call("finalize_chunks"),
      Report(60, "Metadata finalized"),
      Report(65, "Generating embeddings (this may take a moment)"),
      Call("embed_chunks"),
      Report(85, "Embedding complete"),
      Report(90, "Indexing vectors in Qdrant"),
      Call("upsert"),
      Report(95, "Building BM25 index"),
      Call("bm25_build"),
      Report(98, "Saving parent chunks for context retrieval"),
      Call("save_parent_chunks"),
      Report(100, "Ingestion completed successfully")>>

\* str(e) of the exception a step raises
ExcMessage(step) == <<"failure in", step>>

\* f"Error: {str(e)}"
WrapperMessage(step) == <<"Error: ">> \o ExcMessage(step)

NoJob == [status |-> "absent", progress |-> 0, message |-> <<>>, completed_at |-> "None"]

\* IngestionJob(status=pending, progress=0, message="Queued for processing")
NewJob == [status |-> "pending", progress |-> 0, message |-> <<"Queued for processing">>,
           completed_at |-> "None"]

NoPoll == [job |-> "none", found |-> FALSE, entry |-> NoJob]

IngestIdle ==
    /\ jobs_db = [j \in Jobs |-> NoJob]
    /\ w_pc = [j \in Jobs |-> "none"]
    /\ w_i = [j \in Jobs |-> 0]
    /\ w_err = [j \in Jobs |-> "none"]
    /\ w_raised = [j \in Jobs |-> FALSE]
    /\ cb_at = [j \in Jobs |-> "none"]
    /\ calls = [j \in Jobs |-> <<>>]
    /\ steps_done = [j \in Jobs |-> <<>>]
    /\ polled = NoPoll

IngestInit ==
    /\ IngestIdle
    /\ vs_points = {}
    /\ fs_parents = {}
    /\ parent_cache = EmptyCache

\* ingest_file: the upload is refused (no PDF name) or saving it raises: an
\* HTTP error and no job
IngestRejected(j) ==
    /\ w_pc[j] = "none"
    /\ w_pc' = [w_pc EXCEPT ![j] = "rejected"]
    /\ UNCHANGED <<jobs_db, w_i, w_err, w_raised, cb_at, calls, steps_done, polled>>
    /\ UNCHANGED notIngestVars

\* ingest_file: the job entry is created and the task queued
IngestFile(j) ==
    /\ w_pc[j] = "none"
    /\ jobs_db' = [jobs_db EXCEPT ![j] = NewJob]
    /\ w_pc' = [w_pc EXCEPT ![j] = "queued"]
    /\ UNCHANGED <<w_i, w_err, w_raised, cb_at, calls, steps_done, polled>>
    /\ UNCHANGED notIngestVars

\* the background task starts: run_pipeline_with_cleanup calls pipeline.run
WorkerStart(j) ==
    /\ w_pc[j] = "queued"
    /\ w_pc' = [w_pc EXCEPT ![j] = "run"]
    /\ w_i' = [w_i EXCEPT ![j] = 1]
    /\ UNCHANGED <<jobs_db, w_err, w_raised, cb_at, calls, steps_done, polled>>
    /\ UNCHANGED notIngestVars

\* a progress_callback that stores the progress in every job's record
callback_enter_every_record(j, percent, message, by) ==
    /\ calls' = [calls EXCEPT ![j] = Append(@, [percent |-> percent, message |-> message,
                                                by |-> by])]
    /\ jobs_db' = [k \in Jobs |-> IF jobs_db[k] = NoJob THEN jobs_db[k]
                                  ELSE [jobs_db[k] EXCEPT !.progress = percent]]
    /\ cb_at' = [cb_at EXCEPT ![j] = "message"]

\* progress_callback is entered: target_job.progress = progress
callback_enter(j, percent, message, by) ==
    /\ calls' = [calls EXCEPT ![j] = Append(@, [percent |-> percent, message |-> message,
                                                by |-> by])]
    /\ jobs_db' = [jobs_db EXCEPT ![j].progress = percent]
    /\ cb_at' = [cb_at EXCEPT ![j] = "message"]

\* progress_callback returns to the code that called it
callback_return(j) ==
    /\ cb_at' = [cb_at EXCEPT ![j] = "none"]
    /\ CASE Last(calls[j]).by = "run" ->
              \* update_progress returns into the try block; after the last
              \* statement run returns and the task ends
              /\ IF w_i[j] = Len(RunScript)
                 THEN w_pc' = [w_pc EXCEPT ![j] = "finished"]
                 ELSE UNCHANGED w_pc
              /\ w_i' = [w_i EXCEPT ![j] = @ + 1]
              /\ UNCHANGED w_raised
         [] Last(calls[j]).by = "except" ->
              \* raise e: the wrapper's except clause catches it
              /\ w_pc' = [w_pc EXCEPT ![j] = "wrapper"]
              /\ w_raised' = [w_raised EXCEPT ![j] = TRUE]
              /\ UNCHANGED w_i
         [] Last(calls[j]).by = "wrapper" ->
              /\ w_pc' = [w_pc EXCEPT ![j] = "finished"]
              /\ UNCHANGED <<w_i, w_raised>>

\* update_progress(percent, message) in the try block of run
RunReport(j) ==
    /\ w_pc[j] = "run" /\ cb_at[j] = "none"
    /\ RunScript[w_i[j]].op = "report"
    /\ callback_enter(j, RunScript[w_i[j]].percent, RunScript[w_i[j]].message, "run")
    /\ UNCHANGED <<w_pc, w_i, w_err, w_raised, steps_done, polled>>
    /\ UNCHANGED notIngestVars

\* a collaborator step of run returns
RunCall(j) ==
    /\ w_pc[j] = "run" /\ cb_at[j] = "none"
    /\ RunScript[w_i[j]].op = "call"
    /\ steps_done' = [steps_done EXCEPT ![j] = Append(@, RunScript[w_i[j]].step)]
    /\ w_i' = [w_i EXCEPT ![j] = @ + 1]
    /\ IF w_i[j] = Len(RunScript)
       THEN w_pc' = [w_pc EXCEPT ![j] = "finished"]
       ELSE UNCHANGED w_pc
    /\ UNCHANGED <<jobs_db, w_err, w_raised, cb_at, calls, polled>>
    /\ UNCHANGED notIngestVars

\* a run that notes the failure of a step and carries on with the next one
RunCallRaisesContinues(j) ==
    /\ w_pc[j] = "run" /\ cb_at[j] = "none"
    /\ RunScript[w_i[j]].op = "call"
    /\ w_err' = [w_err EXCEPT ![j] = RunScript[w_i[j]].step]
    /\ w_i' = [w_i EXCEPT ![j] = @ + 1]
    /\ IF w_i[j] = Len(RunScript)
       THEN w_pc' = [w_pc EXCEPT ![j] = "finished"]
       ELSE UNCHANGED w_pc
    /\ UNCHANGED <<jobs_db, w_raised, cb_at, calls, steps_done, polled>>
    /\ UNCHANGED notIngestVars

\* a collaborator step of run raises: control goes to run's except clause
RunCallRaises(j) ==
    /\ w_pc[j] = "run" /\ cb_at[j] = "none"
    /\ RunScript[w_i[j]].op = "call"
    /\ w_err' = [w_err EXCEPT ![j] = RunScript[w_i[j]].step]
    /\ w_pc' = [w_pc EXCEPT ![j] = "except"]
    /\ UNCHANGED <<jobs_db, w_i, w_raised, cb_at, calls, steps_done, polled>>
    /\ UNCHANGED notIngestVars

\* run, except clause: progress_callback(-1, str(e))
RunExcept(j) ==
    /\ w_pc[j] = "except" /\ cb_at[j] = "none"
    /\ callback_enter(j, -1, ExcMessage(w_err[j]), "except")
    /\ UNCHANGED <<w_pc, w_i, w_err, w_raised, steps_done, polled>>
    /\ UNCHANGED notIngestVars

\* run_pipeline_with_cleanup, except clause: progress_callback(-1, "Error: ...")
WrapperExcept(j) ==
    /\ w_pc[j] = "wrapper" /\ cb_at[j] = "none"
    /\ callback_enter(j, -1, WrapperMessage(w_err[j]), "wrapper")
    /\ UNCHANGED <<w_pc, w_i, w_err, w_raised, steps_done, polled>>
    /\ UNCHANGED notIngestVars

\* progress_callback: target_job.message = message
CallbackMessage(j) ==
    /\ cb_at[j] = "message"
    /\ jobs_db' = [jobs_db EXCEPT ![j].message = Last(calls[j]).message]
    /\ cb_at' = [cb_at EXCEPT ![j] = "status"]
    /\ UNCHANGED <<w_pc, w_i, w_err, w_raised, calls, steps_done, polled>>
    /\ UNCHANGED notIngestVars

\* the status the callback derives from its progress argument
status_of(progress) ==
    IF progress = 100 THEN "completed"
    ELSE IF progress < 0 THEN "failed"
    ELSE "processing"

\* progress_callback: target_job.status = ...
CallbackStatus(j) ==
    /\ cb_at[j] = "status"
    /\ jobs_db' = [jobs_db EXCEPT ![j].status = status_of(Last(calls[j]).percent)]
    /\ IF Last(calls[j]).percent = 100
       THEN /\ cb_at' = [cb_at EXCEPT ![j] = "completed_at"]
            /\ UNCHANGED <<w_pc, w_i, w_raised>>
       ELSE callback_return(j)
    /\ UNCHANGED <<w_err, calls, steps_done, polled>>
    /\ UNCHANGED notIngestVars

\* progress_callback: target_job.completed_at = now
CallbackCompletedAt(j) ==
    /\ cb_at[j] = "completed_at"
    /\ jobs_db' = [jobs_db EXCEPT ![j].completed_at = "set"]
    /\ callback_return(j)
    /\ UNCHANGED <<w_err, calls, steps_done, polled>>
    /\ UNCHANGED notIngestVars

\* get_ingest_status(job_id): 404 for an unknown id, else the entry as it is
GetIngestStatus(j) ==
    /\ polled' = [job |-> j, found |-> jobs_db[j] # NoJob, entry |-> jobs_db[j]]
    /\ UNCHANGED <<jobs_db, w_pc, w_i, w_err, w_raised, cb_at, calls, steps_done>>
    /\ UNCHANGED notIngestVars

(***************************************************************************)
(* One document on its way through parse -> StructureDetector.detect ->    *)
(* Chunker.chunk_document -> MetadataBuilder.finalize_chunks.              *)
(* A text is a sequence of characters; strings are built from it where the *)
(* code builds one (titles, section paths, the inputs of sha256).          *)
(***************************************************************************)
\* most blocks of a document
MaxBlocks == 3

\* pages of a document
Pages == {1, 2}

\* characters per token of the stand-in for the tiktoken encoder
TokenWidth == 2

\* settings.chunking, scaled by 1/16
parent_chunk_size == 32
parent_chunk_overlap == 4
child_chunk_size == 8
child_chunk_overlap == 1

\* the k-th character of a block's text; a text starts "A1"
Char(k) == IF k = 1 THEN "A" ELSE IF k = 2 THEN "1" ELSE "c" \o ToString(k)

\* the text of n characters
Text(n) == [k \in 1..n |-> Char(k)]

\* a text of more tokens than one parent holds
LongLen == TokenWidth * (parent_chunk_size + 1)

\* "".join(chars)
RECURSIVE Str(_)
Str(chars) == IF chars = <<>> THEN "" ELSE Str(Front(chars)) \o Last(chars)

\* str.strip()
RECURSIVE strip(_)
strip(chars) ==
    IF chars = <<>> THEN chars
    ELSE IF chars[1] = " " THEN strip(Tail(chars))
    ELSE IF Last(chars) = " " THEN strip(Front(chars))
    ELSE chars

\* an Optional[str] such as section_path: None or the characters of a string
NonePath == [some |-> FALSE, s |-> <<>>]

SomePath(s) == [some |-> TRUE, s |-> s]

\* f"{section_path}"
fstr(path) == IF path.some THEN Str(path.s) ELSE "None"

\* an id that is None
NoId == ""

\* hashlib.sha256(s.encode()).hexdigest(): one digest per input string
sha256(s) == "sha256:" \o s

\* the file's doc_id
DocId == "d1"

SourceFile == "a.pdf"

\* " > ".join(titles)
RECURSIVE JoinPath(_)
JoinPath(titles) ==
    IF Len(titles) = 1 THEN titles[1]
    ELSE JoinPath(Front(titles)) \o <<" ", ">", " ">> \o Last(titles)

\* " > ".join(stack) if stack else None
PathOf(titles) == IF titles = <<>> THEN NonePath ELSE SomePath(JoinPath(titles))

\* list.insert(0, x)
Prepend(x, s) == <<x>> \o s

\* _get_path_at_index: walk back from index collecting the nearest entry of
\* each ancestor level
RECURSIVE toc_path_walk(_, _, _, _)
toc_path_walk(sorted_toc, target_level, i, path) ==
    IF i >= 1 /\ Len(path) < target_level
    THEN toc_path_walk(sorted_toc, target_level, i - 1,
                       IF sorted_toc[i].level = target_level - Len(path)
                       THEN Prepend(sorted_toc[i].title, path)
                       ELSE path)
    ELSE path

_get_path_at_index(sorted_toc, index) ==
    PathOf(toc_path_walk(sorted_toc, sorted_toc[index].level, index, <<>>))

\* sorted(toc, key=lambda x: (x[2], x[0]))
sorted_toc_of(toc) ==
    SortedDesc(toc, [i \in DOMAIN toc |-> 0 - (toc[i].page * 100 + toc[i].level)])

\* the while loop of _enrich_with_toc for one block: st = [idx, last_path]
RECURSIVE toc_advance(_, _, _)
toc_advance(sorted_toc, page_number, st) ==
    IF st.idx <= Len(sorted_toc) /\ sorted_toc[st.idx].page <= page_number
    THEN toc_advance(sorted_toc, page_number,
                     [idx |-> st.idx + 1,
                      last_path |-> _get_path_at_index(sorted_toc, st.idx)])
    ELSE st

RECURSIVE enrich_toc_from(_, _, _, _)
enrich_toc_from(blocks, sorted_toc, n, st) ==
    IF n > Len(blocks) THEN <<>>
    ELSE LET st1 == toc_advance(sorted_toc, blocks[n].page_number, st)
         IN <<[blocks[n] EXCEPT !.section_path = st1.last_path]>>
            \o enrich_toc_from(blocks, sorted_toc, n + 1, st1)

_enrich_with_toc(blocks, toc) ==
    enrich_toc_from(blocks, sorted_toc_of(toc), 1, [idx |-> 1, last_path |-> NonePath])

\* a stack that is never cut back to the heading's level
stack_after_untruncated(section_stack, b) ==
    IF b.block_type = "heading" /\ b.heading_level # 0
    THEN Append(section_stack, strip(b.text))
    ELSE section_stack

\* the stack after a block of _enrich_with_headings
stack_after(section_stack, b) ==
    IF b.block_type = "heading" /\ b.heading_level # 0
    THEN Append(Take(section_stack, b.heading_level - 1), strip(b.text))
    ELSE section_stack

RECURSIVE enrich_headings_from(_, _, _)
enrich_headings_from(blocks, n, section_stack) ==
    IF n > Len(blocks) THEN <<>>
    ELSE LET stack == stack_after(section_stack, blocks[n])
         IN <<[blocks[n] EXCEPT !.section_path = PathOf(stack)]>>
            \o enrich_headings_from(blocks, n + 1, stack)

_enrich_with_headings(blocks) == enrich_headings_from(blocks, 1, <<>>)

\* StructureDetector.detect with the table of contents the file has
detect(blocks, toc) ==
    IF toc # <<>> THEN _enrich_with_toc(blocks, toc) ELSE _enrich_with_headings(blocks)

\* encoder.encode: the stand-in cuts a text into tokens of TokenWidth
\* characters, the last one shorter
encode(text) ==
    [k \in 1..((Len(text) + TokenWidth - 1) \div TokenWidth) |->
        SubSeq(text, (k - 1) * TokenWidth + 1, Min(k * TokenWidth, Len(text)))]

\* encoder.decode
RECURSIVE decode(_)
decode(tokens) == IF tokens = <<>> THEN <<>> ELSE decode(Front(tokens)) \o Last(tokens)

\* tokens[a:b]
Slice(s, a, b) == SubSeq(s, a + 1, Min(b, Len(s)))

\* _get_token_ranges: the loop from start s on
RECURSIVE token_ranges_from(_, _, _, _)
token_ranges_from(total_tokens, size, overlap, s) ==
    IF s >= total_tokens THEN <<>>
    ELSE LET e == Min(s + size, total_tokens)
         IN <<[s |-> s, e |-> e]>> \o
            (IF e >= total_tokens THEN <<>>
             ELSE token_ranges_from(total_tokens, size, overlap,
                                    IF e - overlap < 0 THEN 0 ELSE e - overlap))

_get_token_ranges(total_tokens, size, overlap) ==
    token_ranges_from(total_tokens, size, overlap, 0)

\* _find_page_for_offset: the loop from block n on with the running length
RECURSIVE find_page_from(_, _, _, _)
find_page_from(blocks, offset_in_segment, n, current) ==
    IF n > Len(blocks) THEN (IF blocks # <<>> THEN Last(blocks).page_number ELSE 1)
    ELSE IF current + Len(blocks[n].text) + 1 > offset_in_segment
         THEN blocks[n].page_number
         ELSE find_page_from(blocks, offset_in_segment, n + 1,
                             current + Len(blocks[n].text) + 1)

_find_page_for_offset(blocks, offset_in_segment) ==
    find_page_from(blocks, offset_in_segment, 1, 0)

SeqMin(s) == CHOOSE x \in Range(s) : \A y \in Range(s) : x <= y

SeqMax(s) == CHOOSE x \in Range(s) : \A y \in Range(s) : x >= y

\* f"temp_{index}"
temp_id(index) == "temp_" \o ToString(index)

\* the ChunkMetadata both chunkers construct
new_metadata(index, parent_id, page_number, page_range, char_start, char_end, section_path, block_type, token_count, heading_level) ==
    [chunk_id |-> temp_id(index),
     parent_id |-> parent_id,
     prev_chunk_id |-> NoId,
     next_chunk_id |-> NoId,
     doc_id |-> DocId,
     source_file |-> "",
     page_number |-> page_number,
     page_range |-> page_range,
     char_start |-> char_start,
     char_end |-> char_end,
     section_path |-> section_path,
     block_type |-> block_type,
     token_count |-> token_count,
     chunk_index |-> index,
     total_chunks |-> 0,
     is_near_heading |-> FALSE,
     created_at |-> "",
     section_title |-> NonePath,
     subsection_title |-> NonePath,
     heading_level |-> heading_level]

\* _process_atomic_block
_process_atomic_block(section_path, block, start_index, offset) ==
    LET parent_id == sha256(DocId \o fstr(section_path) \o ToString(offset))
        page_range == <<block.page_number, block.page_number>>
        metadata == new_metadata(start_index, parent_id, block.page_number, page_range,
                                 offset, offset + Len(block.text), section_path,
                                 block.block_type, Len(encode(block.text)),
                                 IF block.block_type = "heading"
                                 THEN block.heading_level ELSE 0)
    IN [parents |-> <<[parent_id |-> parent_id,
                       doc_id |-> DocId,
                       text |-> block.text,
                       page_range |-> page_range,
                       section_path |-> section_path,
                       child_ids |-> <<metadata.chunk_id>>]>>,
        children |-> <<[text |-> block.text, metadata |-> metadata]>>,
        index |-> start_index + 1]

\* one child of _process_text_segment, its text and absolute start decoded
segment_child(section_path, parent_id, index, c_text, abs_child_char_start, contributing_blocks, page_range, segment_start_offset) ==
    [text |-> c_text,
     metadata |->
         new_metadata(index, parent_id,
                      _find_page_for_offset(contributing_blocks,
                          abs_child_char_start - segment_start_offset),
                      page_range, abs_child_char_start,
                      abs_child_char_start + Len(c_text), section_path,
                      "text", Len(encode(c_text)), 0)]

\* the children of one parent range p of _process_text_segment
segment_children(section_path, full_tokens, p, child_ranges_rel, parent_id, first_index, contributing_blocks, page_range, segment_start_offset) ==
    [k \in DOMAIN child_ranges_rel |->
        segment_child(section_path, parent_id, first_index + k - 1,
                      decode(Slice(full_tokens, p.s + child_ranges_rel[k].s,
                                   p.s + child_ranges_rel[k].e)),
                      segment_start_offset
                          + Len(decode(Slice(full_tokens, 0, p.s + child_ranges_rel[k].s))),
                      contributing_blocks, page_range, segment_start_offset)]

\* the parent of the children cs, and both appended to the lists so far
segment_join(acc, parent_id, text, page_range, section_path, cs) ==
    [parents |-> Append(acc.parents,
                        [parent_id |-> parent_id,
                         doc_id |-> DocId,
                         text |-> text,
                         page_range |-> page_range,
                         section_path |-> section_path,
                         child_ids |-> [k \in DOMAIN cs |-> cs[k].metadata.chunk_id]]),
     children |-> acc.children \o cs,
     index |-> acc.index + Len(cs)]

\* the body of the loop over parent_ranges of _process_text_segment
segment_step(section_path, full_tokens, p, acc, contributing_blocks, page_range, segment_start_offset, parent_id) ==
    segment_join(acc, parent_id, decode(Slice(full_tokens, p.s, p.e)), page_range,
                 section_path,
                 segment_children(section_path, full_tokens, p,
                                  _get_token_ranges(p.e - p.s, child_chunk_size,
                                                    child_chunk_overlap),
                                  parent_id, acc.index, contributing_blocks,
                                  page_range, segment_start_offset))

\* the loop over parent_ranges of _process_text_segment from range n on
RECURSIVE segment_from(_, _, _, _, _, _, _, _)
segment_from(section_path, full_tokens, parent_ranges, n, acc, contributing_blocks, page_range, segment_start_offset) ==
    IF n > Len(parent_ranges) THEN acc
    ELSE segment_from(section_path, full_tokens, parent_ranges, n + 1,
             segment_step(section_path, full_tokens, parent_ranges[n], acc,
                 contributing_blocks, page_range, segment_start_offset,
                 sha256(DocId \o fstr(section_path) \o
                        ToString(segment_start_offset
                            + Len(decode(Slice(full_tokens, 0, parent_ranges[n].s)))))),
             contributing_blocks, page_range, segment_start_offset)

_process_text_segment(section_path, text, start_index, contributing_blocks, segment_start_offset) ==
    LET pages == [i \in DOMAIN contributing_blocks |-> contributing_blocks[i].page_number]
        page_range == <<SeqMin(pages), SeqMax(pages)>>
        full_tokens == encode(text)
        parent_ranges == _get_token_ranges(Len(full_tokens), parent_chunk_size,
                                           parent_chunk_overlap)
    IN segment_from(section_path, full_tokens, parent_ranges, 1,
                    [parents |-> <<>>, children |-> <<>>, index |-> start_index],
                    contributing_blocks, page_range, segment_start_offset)

\* _group_by_section: runs of consecutive blocks with one section_path
RECURSIVE group_from(_, _, _)
group_from(blocks, n, groups) ==
    IF n > Len(blocks) THEN groups
    ELSE IF groups # <<>> /\ Last(groups).path = blocks[n].section_path
         THEN group_from(blocks, n + 1,
                         [groups EXCEPT ![Len(groups)].blocks = Append(@, blocks[n])])
         ELSE group_from(blocks, n + 1,
                         Append(groups, [path |-> blocks[n].section_path,
                                         blocks |-> <<blocks[n]>>]))

_group_by_section(blocks) == group_from(blocks, 1, <<>>)

\* parent_chunks.extend(p); child_chunks.extend(c); absolute_chunk_index
extend(st, r) ==
    [st EXCEPT !.parents = @ \o r.parents,
               !.children = @ \o r.children,
               !.index = r.index]

\* chunk_document: the buffered text, if any, goes through _process_text_segment
flush(section_path, st) ==
    IF st.buffer_text # <<>>
    THEN [extend(st, _process_text_segment(section_path, st.buffer_text, st.index,
                                           st.buffer_blocks, st.buffer_start_offset))
             EXCEPT !.buffer_text = <<>>, !.buffer_blocks = <<>>]
    ELSE st

\* chunk_document: a block joins the running text buffer
buffer_step(st, block) ==
    [st EXCEPT !.buffer_start_offset = IF st.buffer_text = <<>>
                                       THEN st.cumulative_offset ELSE @,
               !.buffer_text = @ \o block.text \o <<" ">>,
               !.buffer_blocks = Append(@, block),
               !.cumulative_offset = @ + Len(block.text) + 1]

\* chunk_document: a table or heading after the buffer was flushed
atomic_step(section_path, st, block) ==
    [extend(st, _process_atomic_block(section_path, block, st.index,
                                      st.cumulative_offset))
        EXCEPT !.cumulative_offset = @ + Len(block.text) + 1]

\* chunk_document: a table or heading taken for running text
block_step_all_buffered(section_path, st, block) == buffer_step(st, block)

\* chunk_document: the body of the loop over the blocks of a section
block_step(section_path, st, block) ==
    IF block.block_type \in {"table", "heading"}
    THEN atomic_step(section_path, flush(section_path, st), block)
    ELSE buffer_step(st, block)

RECURSIVE blocks_from(_, _, _, _)
blocks_from(section_path, section_blocks, n, st) ==
    IF n > Len(section_blocks) THEN st
    ELSE blocks_from(section_path, section_blocks, n + 1,
                     block_step(section_path, st, section_blocks[n]))

\* chunk_document: the body of the loop over section_groups
group_step(st, group) ==
    flush(group.path,
          blocks_from(group.path, group.blocks, 1,
                      [st EXCEPT !.buffer_text = <<>>,
                                 !.buffer_blocks = <<>>,
                                 !.buffer_start_offset = st.cumulative_offset]))

RECURSIVE groups_from(_, _, _)
groups_from(section_groups, n, st) ==
    IF n > Len(section_groups) THEN st
    ELSE groups_from(section_groups, n + 1, group_step(st, section_groups[n]))

\* the lists chunk_document returns
returned(st) == [parents |-> st.parents, children |-> st.children]

\* Chunker.chunk_document
chunk_document(blocks) ==
    returned(groups_from(_group_by_section(blocks), 1,
                         [parents |-> <<>>, children |-> <<>>, index |-> 0,
                          cumulative_offset |-> 0, buffer_text |-> <<>>,
                          buffer_blocks |-> <<>>, buffer_start_offset |-> 0]))

\* str.split(">"): the parts of chars, cur being the part under way
RECURSIVE split_from(_, _, _)
split_from(chars, n, cur) ==
    IF n > Len(chars) THEN <<cur>>
    ELSE IF chars[n] = ">" THEN <<cur>> \o split_from(chars, n + 1, <<>>)
    ELSE split_from(chars, n + 1, Append(cur, chars[n]))

\* [p.strip() for p in section_path.split(">")]
path_parts(chars) ==
    LET raw == split_from(chars, 1, <<>>) IN [k \in DOMAIN raw |-> strip(raw[k])]

\* an id hashed from the id the child carries when finalize_chunks starts
auth_id_of_current_id(meta) == sha256(DocId \o meta.chunk_id)

\* hashlib.sha256(f"{doc_id}{meta.page_number}{meta.char_start}")
auth_id_of(meta) == sha256(DocId \o ToString(meta.page_number) \o ToString(meta.char_start))

\* finalize_chunks, first pass over child i (0-based as enumerate gives it)
first_pass(children, i, created_at) ==
    LET meta == children[i + 1].metadata
        heading_indices == {h \in 0..(Len(children) - 1) :
                               children[h + 1].metadata.block_type = "heading"}
        parts == path_parts(meta.section_path.s)
        titled == meta.section_path.some /\ meta.section_path.s # <<>>
    IN [meta EXCEPT
           !.chunk_id = auth_id_of(meta),
           !.source_file = SourceFile,
           !.total_chunks = Len(children),
           !.created_at = created_at,
           !.section_title = IF titled THEN SomePath(parts[1]) ELSE @,
           !.subsection_title = IF titled
                                THEN (IF Len(parts) > 1 THEN SomePath(parts[2])
                                      ELSE NonePath)
                                ELSE @,
           !.is_near_heading = \E h \in heading_indices :
                                   (IF i >= h THEN i - h ELSE h - i) <= 2]

\* finalize_chunks, second pass: the prev/next links of child i
second_pass(metas, i) ==
    [metas[i + 1] EXCEPT
        !.prev_chunk_id = IF i > 0 THEN metas[i].chunk_id ELSE @,
        !.next_chunk_id = IF i < Len(metas) - 1 THEN metas[i + 2].chunk_id ELSE @]

\* authoritative_id_map: a later child with the same temp id overwrites
id_map_has(children, tid) ==
    \E i \in DOMAIN children : children[i].metadata.chunk_id = tid

id_map_get(children, tid) ==
    LET last == CHOOSE i \in DOMAIN children :
                    /\ children[i].metadata.chunk_id = tid
                    /\ \A j \in DOMAIN children :
                           children[j].metadata.chunk_id = tid => j <= i
    IN auth_id_of(children[last].metadata)

\* finalize_chunks, third step: a parent's child_ids through the map
remap_child_ids(children, parent) ==
    [parent EXCEPT !.child_ids =
        [k \in DOMAIN parent.child_ids |->
            IF id_map_has(children, parent.child_ids[k])
            THEN id_map_get(children, parent.child_ids[k])
            ELSE parent.child_ids[k]]]

\* children whose ids are hashed from the instant of the call
finalize_chunks_ids_by_time(parents, children, created_at) ==
    [parents |-> parents,
     children |-> [k \in DOMAIN children |->
                      [children[k] EXCEPT
                          !.metadata.chunk_id = sha256(created_at \o ToString(k)),
                          !.metadata.created_at = created_at]]]

\* MetadataBuilder.finalize_chunks
finalize_chunks(parents, children, created_at) ==
    LET metas == [k \in DOMAIN children |-> first_pass(children, k - 1, created_at)]
    IN [parents |-> [k \in DOMAIN parents |-> remap_child_ids(children, parents[k])],
        children |-> [k \in DOMAIN children |->
                         [text |-> children[k].text,
                          metadata |-> second_pass(metas, k - 1)]]]

\* datetime.now(timezone.utc).isoformat(): the instants of the calls of
\* finalize_chunks, t1 being the instant of the first call
Clock == {"t1", "t2"}

\* lengths of the texts PDFParser hands over, by block type
TextLens == {6, LongLen}

TableLens == {LongLen}

\* headings by text length and the level _merge_blocks assigns (the model
\* stops at level 2)
Headings == {[len |-> 2, level |-> 1], [len |-> 1, level |-> 1], [len |-> 1, level |-> 2]}

\* ParsedBlock as _merge_blocks constructs it
ParsedBlock(text, page_number, block_type, heading_level) ==
    [text |-> text, page_number |-> page_number, block_type |-> block_type,
     heading_level |-> heading_level, section_path |-> NonePath]

\* the blocks PDFParser can produce on one page
PageBlocks(p) ==
    {ParsedBlock(Text(n), p, "text", 0) : n \in TextLens}
    \cup {ParsedBlock(Text(n), p, "table", 0) : n \in TableLens}
    \cup {ParsedBlock(Text(h.len), p, "heading", h.level) : h \in Headings}

\* the documents of two pages, each page a level-1 heading and a paragraph
TwoPageDocs ==
    {<<ParsedBlock(Text(h1.len), 1, "heading", 1), ParsedBlock(Text(n1), 1, "text", 0),
       ParsedBlock(Text(h2.len), 2, "heading", 1), ParsedBlock(Text(n2), 2, "text", 0)>> :
        h1 \in {h \in Headings : h.level = 1}, h2 \in {h \in Headings : h.level = 1},
        n1 \in TextLens, n2 \in TextLens}

\* PDFParser.parse sorts the blocks by page
ParsedDocs ==
    {bs \in SeqsUpTo(UNION {PageBlocks(p) : p \in Pages}, MaxBlocks) :
        \A i \in 1..(Len(bs) - 1) : bs[i].page_number <= bs[i + 1].page_number}
    \cup TwoPageDocs

\* doc.get_toc(): no table of contents, or one of [level, title, page] entries
Tocs ==
    {<<>>,
     <<[level |-> 1, title |-> <<"A">>, page |-> 1],
       [level |-> 2, title |-> <<"1">>, page |-> 2]>>}

NoChunks == [blocks |-> <<>>, parents |-> <<>>, children |-> <<>>]

ChunkIdle ==
    /\ c_blocks = <<>>
    /\ c_toc = <<>>
    /\ c_pc = "idle"
    /\ c_enriched = <<>>
    /\ c_parents = <<>>
    /\ c_children = <<>>
    /\ c_once = NoChunks
    /\ c_run = 0
    /\ c_first = NoChunks

\* IngestionPipeline.run after parser.parse returned
ChunkInit ==
    /\ c_blocks \in ParsedDocs
    /\ c_toc \in Tocs
    /\ c_pc = "parsed"
    /\ c_enriched = <<>>
    /\ c_parents = <<>>
    /\ c_children = <<>>
    /\ c_once = NoChunks
    /\ c_run = 1
    /\ c_first = NoChunks
    /\ vs_points = {}
    /\ fs_parents = {}
    /\ parent_cache = EmptyCache

\* blocks = self.detector.detect(blocks, file_path)
Detect ==
    /\ c_pc = "parsed"
    /\ c_enriched' = detect(c_blocks, c_toc)
    /\ c_pc' = "detected"
    /\ UNCHANGED <<c_blocks, c_toc, c_parents, c_children, c_once, c_run, c_first>>
    /\ UNCHANGED notChunkVars

\* parents, children = self.chunker.chunk_document(doc_id, blocks)
ChunkDocument ==
    /\ c_pc = "detected"
    /\ c_parents' = chunk_document(c_enriched).parents
    /\ c_children' = chunk_document(c_enriched).children
    /\ c_pc' = "chunked"
    /\ UNCHANGED <<c_blocks, c_toc, c_enriched, c_once, c_run, c_first>>
    /\ UNCHANGED notChunkVars

\* parents, children = self.metadata_builder.finalize_chunks(...)
FinalizeChunks ==
    /\ c_pc = "chunked"
    /\ \E created_at \in IF c_run = 1 THEN {"t1"} ELSE Clock :
           LET r == finalize_chunks(c_parents, c_children, created_at)
           IN /\ c_parents' = r.parents
              /\ c_children' = r.children
    /\ c_pc' = "finalized"
    /\ UNCHANGED <<c_blocks, c_toc, c_enriched, c_once, c_run, c_first>>
    /\ UNCHANGED notChunkVars

\* finalize_chunks applied to the parents and children it returned (looked
\* at in the first run)
FinalizeAgain ==
    /\ c_pc = "finalized"
    /\ c_run = 1
    /\ c_once' = [blocks |-> c_enriched, parents |-> c_parents, children |-> c_children]
    /\ \E created_at \in Clock :
           LET r == finalize_chunks(c_parents, c_children, created_at)
           IN /\ c_parents' = r.parents
              /\ c_children' = r.children
    /\ c_pc' = "refinalized"
    /\ UNCHANGED <<c_blocks, c_toc, c_enriched, c_run, c_first>>
    /\ UNCHANGED notChunkVars

\* a second, independent run over the same doc_id and the same parsed blocks
RunAgain ==
    /\ c_pc = "finalized"
    /\ c_run = 1
    /\ c_first' = [blocks |-> c_enriched, parents |-> c_parents, children |-> c_children]
    /\ c_run' = 2
    /\ c_pc' = "parsed"
    /\ c_enriched' = <<>>
    /\ c_parents' = <<>>
    /\ c_children' = <<>>
    /\ UNCHANGED <<c_blocks, c_toc, c_once>>
    /\ UNCHANGED notChunkVars

(***************************************************************************)
(* QueryAnalyser.analyse.  A question is the sequence of its lower-case    *)
(* words; the two page patterns and the keyword tests are read word by     *)
(* word.                                                                   *)
(***************************************************************************)
\* longest question, in words
MaxWords == 4

\* the words a question is made of
Words == {"page", "pages", "3", "5", "to", "table", "chart", "intro"}

\* \d+ and int(...)
IsNumber(w) == w \in {"3", "5"}

int(w) == IF w = "3" THEN 3 ELSE 5

\* filter values that are None
NoPageRange == <<>>

NoTitle == ""

NoBlockType == ""

\* the filters of a caller who sent none
NoFilters == [page_range |-> NoPageRange, section_title |-> NoTitle,
              block_type |-> NoBlockType]

\* request.filters: absent, or a QueryFilters with any field null
CallerFilters ==
    {[given |-> FALSE, filters |-> NoFilters]}
    \cup {[given |-> TRUE,
           filters |-> [page_range |-> pr, section_title |-> st, block_type |-> bt]] :
             pr \in {NoPageRange, <<1, 2>>},
             st \in {NoTitle, "Methods"},
             bt \in {NoBlockType, "text"}}

\* section_titles: None, or the titles of the indexed sections
SectionTitleLists == {<<>>, <<"Outro", "Intro">>}

\* title.lower()
lower(title) == IF title = "Intro" THEN "intro" ELSE IF title = "Outro" THEN "outro" ELSE title

\* page_range_pattern matches at word i: pages? \d+ (to|-) \d+
range_match_at(question, i) ==
    /\ i + 3 <= Len(question)
    /\ question[i] \in {"page", "pages"}
    /\ IsNumber(question[i + 1])
    /\ question[i + 2] \in {"to", "-"}
    /\ IsNumber(question[i + 3])

\* page_pattern matches at word i: page \d+
single_match_at(question, i) ==
    /\ i + 1 <= Len(question)
    /\ question[i] = "page"
    /\ IsNumber(question[i + 1])

\* pattern.search: the leftmost match (0: None)
leftmost(question, match_at(_, _)) ==
    IF \E i \in DOMAIN question : match_at(question, i)
    THEN CHOOSE i \in DOMAIN question :
             /\ match_at(question, i)
             /\ \A j \in 1..(i - 1) : ~match_at(question, j)
    ELSE 0

\* step 1: the page range read from the question (NoPageRange: no match)
extracted_page_range(question) ==
    IF leftmost(question, range_match_at) # 0
    THEN <<int(question[leftmost(question, range_match_at) + 1]),
           int(question[leftmost(question, range_match_at) + 3])>>
    ELSE IF leftmost(question, single_match_at) # 0
    THEN <<int(question[leftmost(question, single_match_at) + 1]),
           int(question[leftmost(question, single_match_at) + 1])>>
    ELSE NoPageRange

\* step 2: the first known title the question holds (NoTitle: none)
extracted_section_title(question, section_titles) ==
    IF \E k \in DOMAIN section_titles : lower(section_titles[k]) \in Range(question)
    THEN section_titles[CHOOSE k \in DOMAIN section_titles :
             /\ lower(section_titles[k]) \in Range(question)
             /\ \A j \in 1..(k - 1) : lower(section_titles[j]) \notin Range(question)]
    ELSE NoTitle

\* step 3: "table" when a keyword occurs
extracted_block_type(question) ==
    IF \E kw \in {"table", "tabular", "chart"} : kw \in Range(question)
    THEN "table" ELSE NoBlockType

\* filters[field] = extracted, when something was extracted
merged(given, extracted, none) == IF extracted # none THEN extracted ELSE given

\* QueryAnalyser.analyse
analyse(question, existing_filters, section_titles) ==
    [page_range |-> merged(existing_filters.filters.page_range,
                           extracted_page_range(question), NoPageRange),
     section_title |-> merged(existing_filters.filters.section_title,
                              extracted_section_title(question, section_titles),
                              NoTitle),
     block_type |-> merged(existing_filters.filters.block_type,
                           extracted_block_type(question), NoBlockType)]

AnalyseIdle ==
    /\ a_question = <<>>
    /\ a_existing = [given |-> FALSE, filters |-> NoFilters]
    /\ a_titles = <<>>
    /\ a_pc = "idle"
    /\ a_out = NoFilters

\* analyse is called with a question, the caller's filters and the titles
AnalyseInit ==
    /\ a_question \in SeqsUpTo(Words, MaxWords)
    /\ a_existing \in CallerFilters
    /\ a_titles \in SectionTitleLists
    /\ a_pc = "called"
    /\ a_out = NoFilters
    /\ vs_points = {}
    /\ fs_parents = {}
    /\ parent_cache = EmptyCache

\* filters = self.analyser.analyse(request.question, request.filters)
Analyse ==
    /\ a_pc = "called"
    /\ a_out' = analyse(a_question, a_existing, a_titles)
    /\ a_pc' = "returned"
    /\ UNCHANGED <<a_question, a_existing, a_titles>>
    /\ UNCHANGED notAnalyseVars

(***************************************************************************)
(* delete_document.  The route calls the three stores in turn; a store     *)
(* call that raises ends the request with status 500.  The two stores on   *)
(* disk remove their files one os.remove at a time.                        *)
(***************************************************************************)
\* the files LocalBM25Store keeps per document
Suffixes == {".pkl", "_map.json"}

\* the points of a document's chunks
PointsOf(doc_id) == {c \in Chunks : DocOf(c) = doc_id}

\* the parents LocalFileStore keeps in {doc_id}.json
ParentsOf(doc_id) == {ParentOf(c) : c \in PointsOf(doc_id)}

\* what the three stores hold
Stored ==
    [points |-> vs_points, bm25 |-> bm25_files, parents |-> fs_parents, pdfs |-> uploads]

DeleteIdle ==
    /\ bm25_files = {}
    /\ uploads = {}
    /\ d_doc_id = "none"
    /\ d_pc = "idle"
    /\ d_before = [points |-> {}, bm25 |-> {}, parents |-> {}, pdfs |-> {}]
    /\ d_resp = "none"

\* DELETE /documents/{doc_id} arrives; the stores hold what earlier
\* ingestions and deletions left
DeleteInit ==
    /\ vs_points \in {UNION {PointsOf(d) : d \in ds} : ds \in SUBSET Docs}
    /\ bm25_files \in SUBSET (Docs \X Suffixes)
    /\ fs_parents \in SUBSET Parents
    /\ uploads \in SUBSET Docs
    /\ parent_cache = EmptyCache
    /\ d_doc_id \in Docs
    /\ d_pc = "vectors"
    /\ d_before = [points |-> vs_points, bm25 |-> bm25_files, parents |-> fs_parents,
                   pdfs |-> uploads]
    /\ d_resp = "none"

\* the except branches: log, re-raise, HTTPException(500)
delete_failed ==
    /\ d_pc' = "raised"
    /\ d_resp' = "500"

\* step 1: vector_store.delete_document(doc_id) returns
DeleteVectors ==
    /\ d_pc = "vectors"
    /\ vs_points' = vs_points \ PointsOf(d_doc_id)
    /\ d_pc' = "bm25_pkl"
    /\ UNCHANGED <<fs_parents, bm25_files, uploads, d_doc_id, d_before, d_resp>>
    /\ UNCHANGED notDeleteVars

\* step 1: vector_store.delete_document(doc_id) raises
DeleteVectorsRaises ==
    /\ d_pc = "vectors"
    /\ delete_failed
    /\ UNCHANGED <<storeVars, bm25_files, uploads, d_doc_id, d_before>>
    /\ UNCHANGED notDeleteVars

\* the suffix the loop of LocalBM25Store.delete is at
suffix_at(pc) == IF pc = "bm25_pkl" THEN ".pkl" ELSE "_map.json"

\* step 2: bm25_store.delete(doc_id), one turn of its loop: os.remove of
\* the file if it exists
Bm25Remove ==
    /\ d_pc \in {"bm25_pkl", "bm25_map"}
    /\ bm25_files' = bm25_files \ {<<d_doc_id, suffix_at(d_pc)>>}
    /\ d_pc' = IF d_pc = "bm25_pkl" THEN "bm25_map" ELSE "parents"
    /\ UNCHANGED <<storeVars, uploads, d_doc_id, d_before, d_resp>>
    /\ UNCHANGED notDeleteVars

\* step 2: os.remove raises on the file that exists
Bm25RemoveRaises ==
    /\ d_pc \in {"bm25_pkl", "bm25_map"}
    /\ <<d_doc_id, suffix_at(d_pc)>> \in bm25_files
    /\ delete_failed
    /\ UNCHANGED <<storeVars, bm25_files, uploads, d_doc_id, d_before>>
    /\ UNCHANGED notDeleteVars

\* step 3: file_store.delete_document(doc_id): the parents file, then the
\* PDF; after the PDF the route returns success
FileStoreRemove ==
    /\ d_pc \in {"parents", "pdf"}
    /\ IF d_pc = "parents"
       THEN /\ fs_parents' = fs_parents \ ParentsOf(d_doc_id)
            /\ d_pc' = "pdf"
            /\ UNCHANGED <<uploads, d_resp>>
       ELSE /\ uploads' = uploads \ {d_doc_id}
            /\ d_pc' = "returned"
            /\ d_resp' = "success"
            /\ UNCHANGED fs_parents
    /\ UNCHANGED <<vs_points, bm25_files, d_doc_id, d_before>>
    /\ UNCHANGED notDeleteVars

\* step 3: os.remove raises on the file that exists
FileStoreRemoveRaises ==
    /\ d_pc \in {"parents", "pdf"}
    /\ IF d_pc = "parents" THEN ParentsOf(d_doc_id) \subseteq fs_parents
                           ELSE d_doc_id \in uploads
    /\ delete_failed
    /\ UNCHANGED <<storeVars, bm25_files, uploads, d_doc_id, d_before>>
    /\ UNCHANGED notDeleteVars

(***************************************************************************)
(* Chunker._get_token_ranges, one turn of its while loop per step.         *)
(***************************************************************************)
\* largest total_tokens
MaxTokens == 6

\* largest size and largest overlap
MaxSize == 3

\* a run that terminates has at most total_tokens windows; the model stops
\* following a run whose list has grown past that
MaxWindows == MaxTokens + 1

\* e = min(s + size, total_tokens)
window_end(s, size, total_tokens) == Min(s + size, total_tokens)

\* the next window starting where the last one ended
next_start_without_overlap(e, overlap) == e

\* s = e - overlap; if s < 0: s = 0
next_start(e, overlap) == IF e - overlap < 0 THEN 0 ELSE e - overlap

RangesIdle ==
    /\ r_total_tokens = 0
    /\ r_size = 0
    /\ r_overlap = 0
    /\ r_s = 0
    /\ r_ranges = <<>>
    /\ r_pc = "idle"

\* _get_token_ranges(total_tokens, size, overlap) is entered; the settings
\* accept any integers for size and overlap
RangesInit ==
    /\ r_total_tokens \in 0..MaxTokens
    /\ r_size \in 1..MaxSize
    /\ r_overlap \in 0..MaxSize
    /\ r_s = 0
    /\ r_ranges = <<>>
    /\ r_pc = "loop"
    /\ vs_points = {}
    /\ fs_parents = {}
    /\ parent_cache = EmptyCache

\* while s < total_tokens: append (s, e); break if e >= total_tokens
RangesTurn ==
    /\ r_pc = "loop"
    /\ r_s < r_total_tokens
    /\ Len(r_ranges) < MaxWindows
    /\ r_ranges' = Append(r_ranges, [s |-> r_s, e |-> window_end(r_s, r_size, r_total_tokens)])
    /\ IF window_end(r_s, r_size, r_total_tokens) >= r_total_tokens
       THEN r_pc' = "returned" /\ UNCHANGED r_s
       ELSE /\ r_s' = next_start(window_end(r_s, r_size, r_total_tokens), r_overlap)
            /\ UNCHANGED r_pc
    /\ UNCHANGED <<r_total_tokens, r_size, r_overlap>>
    /\ UNCHANGED notRangesVars

\* the loop condition fails: return ranges
RangesReturn ==
    /\ r_pc = "loop"
    /\ r_s >= r_total_tokens
    /\ r_pc' = "returned"
    /\ UNCHANGED <<r_total_tokens, r_size, r_overlap, r_s, r_ranges>>
    /\ UNCHANGED notRangesVars

(***************************************************************************)
(* Specifications.                                                         *)
(***************************************************************************)
InitSearch == SearchInit /\ BuildIdle /\ LlmIdle /\ QueryIdle /\ IngestIdle /\ ChunkIdle /\ AnalyseIdle /\ DeleteIdle /\ RangesIdle

NextSearch == Search

SpecSearch == InitSearch /\ [][NextSearch]_vars

InitBuild == BuildInit /\ SearchIdle /\ LlmIdle /\ QueryIdle /\ IngestIdle /\ ChunkIdle /\ AnalyseIdle /\ DeleteIdle /\ RangesIdle

NextBuild == \E r \in Reqs : BuildReset(r) \/ BuildLoad(r) \/ BuildWalk(r)

SpecBuild == InitBuild /\ [][NextBuild]_vars

Init == QueryInit /\ SearchIdle /\ BuildIdleRequests /\ LlmIdle /\ IngestIdle /\ ChunkIdle /\ AnalyseIdle /\ DeleteIdle /\ RangesIdle

Next ==
    \/ RunSearch
    \/ RunRerankRaises
    \/ RunRerank
    \/ RunBuild
    \/ RunGenerateSync
    \/ RunAssemble
    \/ RunGenerateRaised
    \/ RunReturnStream
    \/ StreamWrapperHead
    \/ StreamFragment
    \/ StreamWrapperEnd
    \/ SyncAnswered
    \/ SyncRateLimited
    \/ SyncFailed
    \/ StreamOpened
    \/ StreamRateLimited
    \/ StreamOpenFailed
    \/ StreamBroken
    \/ StreamDone

Spec == Init /\ [][Next]_vars

InitIngest == IngestInit /\ SearchIdle /\ BuildIdleRequests /\ LlmIdle /\ QueryIdle /\ ChunkIdle /\ AnalyseIdle /\ DeleteIdle /\ RangesIdle

NextIngest ==
    \E j \in Jobs :
        \/ IngestRejected(j)
        \/ IngestFile(j)
        \/ WorkerStart(j)
        \/ RunReport(j)
        \/ RunCall(j)
        \/ RunCallRaises(j)
        \/ RunExcept(j)
        \/ WrapperExcept(j)
        \/ CallbackMessage(j)
        \/ CallbackStatus(j)
        \/ CallbackCompletedAt(j)
        \/ GetIngestStatus(j)

SpecIngest == InitIngest /\ [][NextIngest]_vars

\* one document from the parsed blocks to the finalized chunks, twice
InitChunk ==
    ChunkInit /\ SearchIdle /\ BuildIdleRequests /\ LlmIdle /\ QueryIdle /\ IngestIdle /\ AnalyseIdle /\ DeleteIdle /\ RangesIdle

NextChunk ==
    \/ Detect
    \/ ChunkDocument
    \/ FinalizeChunks
    \/ FinalizeAgain
    \/ RunAgain

SpecChunk == InitChunk /\ [][NextChunk]_vars

\* one call of QueryAnalyser.analyse
InitAnalyse ==
    AnalyseInit /\ SearchIdle /\ BuildIdleRequests /\ LlmIdle /\ QueryIdle /\ IngestIdle
    /\ ChunkIdle /\ DeleteIdle /\ RangesIdle

NextAnalyse == Analyse

SpecAnalyse == InitAnalyse /\ [][NextAnalyse]_vars

\* one DELETE /documents/{doc_id} request
InitDelete ==
    DeleteInit /\ SearchIdle /\ BuildIdleRequests /\ LlmIdle /\ QueryIdle /\ IngestIdle
    /\ ChunkIdle /\ AnalyseIdle /\ RangesIdle

NextDelete ==
    \/ DeleteVectors
    \/ DeleteVectorsRaises
    \/ Bm25Remove
    \/ Bm25RemoveRaises
    \/ FileStoreRemove
    \/ FileStoreRemoveRaises

SpecDelete == InitDelete /\ [][NextDelete]_vars

\* one call of Chunker._get_token_ranges
InitRanges ==
    RangesInit /\ SearchIdle /\ BuildIdleRequests /\ LlmIdle /\ QueryIdle /\ IngestIdle
    /\ ChunkIdle /\ AnalyseIdle /\ DeleteIdle

NextRanges == RangesTurn \/ RangesReturn

SpecRanges == InitRanges /\ [][NextRanges]_vars

\* the loop is not preempted for ever: the call runs on a worker thread
SpecRangesFair == SpecRanges /\ WF_vars(NextRanges)

(***************************************************************************)
(* Claims about HybridSearcher.search (SpecSearch).                        *)
(***************************************************************************)
\* the two arms of the finished call, as the call computed them
DenseArm == vector_store_search(s_ranking, s_doc_ids, dense_top_k)

SparseArm == sparse_arm(s_index, s_doc_ids)

ResultIds == [i \in DOMAIN s_out.results |-> s_out.results[i].chunk_id]

\* 1-indexed position of x in s (0 when absent)
PosIn(s, x) == IF x \in Range(s) THEN CHOOSE i \in DOMAIN s : s[i] = x /\ \A j \in 1..(i - 1) : s[j] # x
               ELSE 0

\* C1: a chunk id returned only by the sparse arm, ranked within rerank_top_k
\* after fusion and held by the vector store, is in the returned results.
SparseOnlyHitKept ==
    s_pc = "done" =>
        \A c \in Range(HitIds(SparseArm)) \ Range(DenseArm) :
            (/\ PosIn(fused_sorted(DenseArm, SparseArm), c) \in 1..rerank_top_k
             /\ c \in vs_points)
                => c \in Range(ResultIds)

\* a finished call that returned a sparse-only candidate
SparseOnlyHitReturned ==
    /\ s_pc = "done"
    /\ \E c \in Range(ResultIds) : c \notin Range(DenseArm)
    /\ Range(DenseArm) # {}

\* The reference ranking of C5: score = one term per arm containing the id, at
\* the id's rank in that arm; descending by score, equal scores in merge order.
RefScore(c) ==
    (IF c \in Range(DenseArm) THEN rrf_term(PosIn(DenseArm, c)) ELSE 0)
        + (IF c \in Range(HitIds(SparseArm)) THEN rrf_term(PosIn(HitIds(SparseArm), c)) ELSE 0)

RefMergePos(c) ==
    IF c \in Range(DenseArm) THEN PosIn(DenseArm, c)
    ELSE Len(DenseArm) + PosIn(HitIds(SparseArm), c)

RefBefore(a, b) ==
    \/ RefScore(a) > RefScore(b)
    \/ RefScore(a) = RefScore(b) /\ RefMergePos(a) < RefMergePos(b)

RefRank(c) ==
    1 + Cardinality({b \in Range(DenseArm) \cup Range(HitIds(SparseArm)) : RefBefore(b, c)})

\* C5: the result ids, in order, are a subsequence of the first rerank_top_k
\* ids of the reference ranking.
ResultsFollowReferenceRanking ==
    s_pc = "done" =>
        /\ \A i \in DOMAIN ResultIds : RefRank(ResultIds[i]) \in 1..rerank_top_k
        /\ \A i, j \in DOMAIN ResultIds : i < j => RefRank(ResultIds[i]) < RefRank(ResultIds[j])

\* C5 restricted to calls whose doc_ids list names no document twice
ResultsFollowReferenceRankingDistinctDocs ==
    Cardinality(Range(s_doc_ids)) = Len(s_doc_ids) => ResultsFollowReferenceRanking

(***************************************************************************)
(* Claims about ContextBuilder.build (SpecBuild).                          *)
(***************************************************************************)
\* the candidates that are the first of their parent_id, in list order
FirstOfParent(reranked) ==
    LET first == {i \in DOMAIN reranked :
                    \A j \in 1..(i - 1) :
                        reranked[j].metadata.parent_id # reranked[i].metadata.parent_id}
        RECURSIVE pick(_)
        pick(n) == IF n = 0 THEN <<>>
                   ELSE IF n \in first THEN Append(pick(n - 1), reranked[n])
                   ELSE pick(n - 1)
    IN pick(Len(reranked))

\* the context entry the claim expects for a candidate
EntryOf(res) ==
    [child_chunk_id |-> res.chunk_id,
     parent_text |-> ParentText(res.metadata.parent_id),
     metadata |-> res.metadata,
     rerank_score |-> res.rerank_score]

BuildAsIfAlone ==
    \A r \in Reqs : b_pc[r] = "done" => b_ctx[r] = build(fs_parents, b_in[r])

(***************************************************************************)
(* Claims about RetrievalPipeline.run and LLMClient.generate (Spec).       *)
(***************************************************************************)
\* run has returned the not-found response and generate was never entered
NotFoundReturned ==
    /\ q_pc = "done"
    /\ q_resp.question = q_question
    /\ q_resp.answer = NotFoundAnswer
    /\ q_resp.citations = <<>>
    /\ q_resp.retrieval_stats.final_count = 0
    /\ "generate" \notin q_reached
    /\ l_pc = "idle"
    /\ q_out = <<>>

\* C2: in both modes, when the searcher returns no candidate or the context
\* builder returns no context, run returns the single not-found response
\* (fixed answer, no citations, final_count 0) and LLMClient.generate is not
\* invoked, then or later in the request.
EmptyGuardsReturnNotFound ==
    [][ /\ (q_pc = "search" /\ q_pc' # "search" /\ q_cands' = <<>>) => NotFoundReturned'
        /\ (q_pc = "build" /\ q_pc' # "build" /\ q_contexts' = <<>>) => NotFoundReturned'
        /\ NotFoundReturned => NotFoundReturned' ]_vars

\* a streaming request whose reranked candidates resolve to no context has
\* got the not-found response
NotFoundOnEmptyContexts ==
    /\ NotFoundReturned
    /\ q_stream
    /\ "build" \in q_reached
    /\ q_contexts = <<>>
    /\ q_resp.retrieval_stats.reranked_from > 0

GenerateEndsAnsweredOrExhausted ==
    /\ \A m \in Models : l_sent[m] <= max_retries
    /\ l_sent["fallback"] > 0 => l_model = "fallback"
    /\ l_pc = "raised" => (l_model = "fallback" /\ l_attempt = max_retries - 1)
    /\ l_pc = "returned" => l_answer_by \in Models

\* the same for synchronous calls alone
SyncGenerateEndsAnsweredOrExhausted ==
    l_mode = "sync" => GenerateEndsAnsweredOrExhausted

(***************************************************************************)
(* Claims about ingestion jobs (SpecIngest).                               *)
(***************************************************************************)
FailureCalls(j) == {k \in DOMAIN calls[j] : calls[j][k].percent = -1}

\* C6: a failure of a step is reported to the job's progress callback as
\* percent -1 with the failure's message exactly once, nothing is reported
\* after it, and run re-raises the failure to its caller.
FailureReportedExactlyOnce ==
    \A j \in Jobs :
        /\ Cardinality(FailureCalls(j)) <= 1
        /\ \A k \in FailureCalls(j) :
              /\ k = Len(calls[j])
              /\ calls[j][k].message = ExcMessage(w_err[j])
        /\ (w_pc[j] = "finished" /\ w_err[j] # "none") =>
              (Cardinality(FailureCalls(j)) = 1 /\ w_raised[j])

ByRun(c) == c.by # "wrapper"

\* the calls of the progress callback made inside IngestionPipeline.run
RunCalls(j) == SelectSeq(calls[j], ByRun)

CompletionReported(j) == \E k \in DOMAIN RunCalls(j) : RunCalls(j)[k].percent = 100

PollSeesWholeUpdate ==
    polled.found =>
        /\ polled.entry.progress = 100 => polled.entry.status = "completed"
        /\ polled.entry.progress < 0 => polled.entry.status = "failed"
        /\ \/ /\ polled.entry.progress = NewJob.progress
              /\ polled.entry.message = NewJob.message
           \/ \E k \in DOMAIN calls[polled.job] :
                 /\ calls[polled.job][k].percent = polled.entry.progress
                 /\ calls[polled.job][k].message = polled.entry.message

(***************************************************************************)
(* Claims about Chunker.chunk_document and finalize_chunks (SpecChunk).    *)
(***************************************************************************)
IsAtomicBlock(b) == b.block_type \in {"table", "heading"}

IsAtomicChild(c) == c.metadata.block_type \in {"table", "heading"}

\* the tables and headings handed to chunk_document, in order
AtomicBlocks == SelectSeq(c_enriched, IsAtomicBlock)

\* the children typed table or heading, in order
AtomicChildren == SelectSeq(c_children, IsAtomicChild)

\* the parents listing the chunk id among their child_ids
ParentsListing(id) == {i \in DOMAIN c_parents : id \in Range(c_parents[i].child_ids)}

\* C11: every table or heading block given to chunk_document yields exactly
\* one child and one parent: the child has the block's text, type and page,
\* the parent has the block's text and lists that child alone, and no other
\* parent lists it; no text of another block is merged in, whatever the
\* block's length.
AtomicBlocksKeptWhole ==
    c_pc = "chunked" =>
        /\ Len(AtomicChildren) = Len(AtomicBlocks)
        /\ \A k \in DOMAIN AtomicBlocks :
               LET b == AtomicBlocks[k]
                   c == AtomicChildren[k]
               IN /\ c.text = b.text
                  /\ c.metadata.block_type = b.block_type
                  /\ c.metadata.page_number = b.page_number
                  /\ Cardinality(ParentsListing(c.metadata.chunk_id)) = 1
                  /\ \A i \in ParentsListing(c.metadata.chunk_id) :
                         /\ c_parents[i].child_ids = <<c.metadata.chunk_id>>
                         /\ c_parents[i].text = b.text
                         /\ c.metadata.parent_id = c_parents[i].parent_id

\* a table longer than one parent window between two paragraphs of its section
LongTableBetweenParagraphs ==
    /\ c_pc = "chunked"
    /\ Len(c_enriched) = 3
    /\ c_enriched[1].block_type = "text"
    /\ c_enriched[2].block_type = "table"
    /\ c_enriched[3].block_type = "text"
    /\ Len(c_enriched[2].text) = LongLen
    /\ c_enriched[1].section_path = c_enriched[3].section_path
    /\ Len(c_children) = 3

ChildId(i) == c_children[i].metadata.chunk_id

\* the parents whose parent_id is id
ParentsNamed(id) == {i \in DOMAIN c_parents : c_parents[i].parent_id = id}

\* prev_chunk_id and next_chunk_id chain the children in document order
ChildrenChained ==
    \A i \in DOMAIN c_children :
        /\ c_children[i].metadata.prev_chunk_id =
               (IF i = 1 THEN NoId ELSE ChildId(i - 1))
        /\ c_children[i].metadata.next_chunk_id =
               (IF i = Len(c_children) THEN NoId ELSE ChildId(i + 1))
        /\ ChildId(i) # NoId

\* every id a parent lists is the authoritative chunk_id of a child
ChildIdsAuthoritative ==
    \A i \in DOMAIN c_parents :
        \A id \in Range(c_parents[i].child_ids) :
            \E k \in DOMAIN c_children : ChildId(k) = id

\* every child's parent_id names exactly one parent, which lists the child
OneParentPerChild ==
    \A k \in DOMAIN c_children :
        /\ Cardinality(ParentsNamed(c_children[k].metadata.parent_id)) = 1
        /\ \A i \in ParentsNamed(c_children[k].metadata.parent_id) :
               ChildId(k) \in Range(c_parents[i].child_ids)

\* C12: after chunk_document and finalize_chunks the prev/next links chain
\* the children in order (null exactly at the two ends), every id in a
\* parent's child_ids is the authoritative chunk_id of a child, and every
\* child's parent_id names exactly one parent, whose child_ids holds that
\* child's authoritative chunk_id.
LinksAndOwnershipConsistent ==
    c_pc = "finalized" =>
        /\ ChildrenChained
        /\ ChildIdsAuthoritative
        /\ OneParentPerChild

\* no two parents of the document share a parent_id
ParentIdsDistinct ==
    \A i, j \in DOMAIN c_parents :
        c_parents[i].parent_id = c_parents[j].parent_id => i = j

\* the links and ownership of C12 for the documents whose parents got
\* pairwise different parent_ids
LinksAndOwnershipConsistentDistinctParents ==
    (c_pc = "finalized" /\ ParentIdsDistinct) =>
        /\ ChildrenChained
        /\ ChildIdsAuthoritative
        /\ OneParentPerChild

\* chunk_id, prev_chunk_id and next_chunk_id of every child
IdsAndLinks(children) ==
    [k \in DOMAIN children |->
        <<children[k].metadata.chunk_id,
          children[k].metadata.prev_chunk_id,
          children[k].metadata.next_chunk_id>>]

\* child_ids of every parent
ChildIdLists(parents) == [i \in DOMAIN parents |-> parents[i].child_ids]

\* C13: finalize_chunks applied a second time, to the parents and children
\* it returned and with the same doc_id and source_file, leaves every
\* chunk_id, prev_chunk_id, next_chunk_id and child_ids as they were.
FinalizeIdempotentOnIds ==
    c_pc = "refinalized" =>
        /\ IdsAndLinks(c_children) = IdsAndLinks(c_once.children)
        /\ ChildIdLists(c_parents) = ChildIdLists(c_once.parents)

\* a second application, at another instant, to a document of several
\* parents, one of them with several children
RefinalizedSeveralChunks ==
    /\ c_pc = "refinalized"
    /\ Len(c_parents) >= 2
    /\ \E i \in DOMAIN c_parents : Len(c_parents[i].child_ids) >= 2
    /\ c_children[1].metadata.created_at # c_once.children[1].metadata.created_at

SectionPaths(blocks) == [i \in DOMAIN blocks |-> blocks[i].section_path]

ParentIds(parents) == [i \in DOMAIN parents |-> parents[i].parent_id]

ChunkIds(children) == [k \in DOMAIN children |-> children[k].metadata.chunk_id]

\* C14: two independent runs of section-path resolution, chunking and
\* finalization over the same doc_id and the same ordered blocks give every
\* block the same section_path and produce the same sequence of parent_ids
\* and the same sequence of authoritative chunk_ids, whatever created_at is.
RunsAgreeOnPathsAndIds ==
    c_run = 2 =>
        /\ c_pc \in {"detected", "chunked", "finalized", "refinalized"} =>
               SectionPaths(c_enriched) = SectionPaths(c_first.blocks)
        /\ c_pc \in {"chunked", "finalized", "refinalized"} =>
               ParentIds(c_parents) = ParentIds(c_first.parents)
        /\ c_pc \in {"finalized", "refinalized"} =>
               ChunkIds(c_children) = ChunkIds(c_first.children)

\* the second run finalized at another instant than the first, over a
\* document with a resolved section and several children
SecondRunFinalizedLater ==
    /\ c_run = 2
    /\ c_pc = "finalized"
    /\ Len(c_children) >= 2
    /\ \E i \in DOMAIN c_enriched : c_enriched[i].section_path.some
    /\ c_children[1].metadata.created_at # c_first.children[1].metadata.created_at

(***************************************************************************)
(* Claims about the assembled response, the reranker and the analyser.     *)
(***************************************************************************)
\* resp echoes the question, cites the context entries one by one in their
\* order and counts what the retrieval steps of this request reported
ReflectsRetrieval(resp) ==
    /\ resp.question = q_question
    /\ Len(resp.citations) = Len(q_contexts)
    /\ \A i \in DOMAIN q_contexts :
           /\ resp.citations[i].doc_id = q_contexts[i].metadata.doc_id
           /\ resp.citations[i].chunk_text_preview =
                  SubSeq(q_contexts[i].parent_text, 1,
                         Min(PreviewLen, Len(q_contexts[i].parent_text)))
           /\ resp.citations[i].relevance_score = q_contexts[i].rerank_score
    /\ resp.retrieval_stats.dense_hits = q_stats.dense_hits
    /\ resp.retrieval_stats.sparse_hits = q_stats.sparse_hits
    /\ resp.retrieval_stats.fused_candidates = q_stats.fused_candidates
    /\ resp.retrieval_stats.reranked_from = q_stats.reranked_from
    /\ resp.retrieval_stats.final_count = Len(q_contexts)

\* C15: for a request that reached generation the response, returned or sent
\* as the metadata frame of the stream, echoes the question, has one citation
\* per context entry in context order (preview: the first PreviewLen
\* characters of the parent text; relevance_score: the rerank score),
\* reports the searcher's dense_hits, sparse_hits and fused_candidates, the
\* number of candidates handed to the reranker as reranked_from and the
\* number of context entries as final_count.
ResponseReflectsRetrieval ==
    /\ (~q_stream /\ q_pc = "done" /\ "generate" \in q_reached) =>
           ReflectsRetrieval(q_resp)
    /\ q_out # <<>> => ReflectsRetrieval(q_out[1].json)
    /\ q_pc \in {"build", "generate", "llm"} =>
           q_stats.reranked_from = Len(q_cands)
    /\ (~q_stream /\ q_pc = "done" /\ "generate" \in q_reached) =>
           q_stats.reranked_from = Len(q_cands)

\* an answered request whose two reranked chunks share one parent with a
\* text longer than the preview
AnsweredWithSharedParent ==
    /\ ~q_stream /\ q_pc = "done" /\ "generate" \in q_reached
    /\ Len(q_reranked) = 2
    /\ Len(q_contexts) = 1
    /\ Len(q_contexts[1].parent_text) > PreviewLen
    /\ q_stats.dense_hits # q_stats.sparse_hits

\* the response of a finished request: returned, or the stream's first frame
FinishedResponse == IF q_stream THEN q_out[1].json ELSE q_resp

\* C16: model_used of the response of an answered request is the model that
\* produced the answer: the fallback model when the fallback answered.
ModelUsedIsAnsweringModel ==
    (q_pc = "done" /\ l_answer_by \in Models) =>
        FinishedResponse.model_used = l_answer_by

\* model_used of an answered request is the configured primary model
ModelUsedIsConfiguredModel ==
    (q_pc = "done" /\ l_answer_by \in Models) =>
        FinishedResponse.model_used = ConfiguredModel

\* the scores of a reranked list never increase
ScoresNonIncreasing(reranked) ==
    \A i \in 1..(Len(reranked) - 1) :
        reranked[i].rerank_score >= reranked[i + 1].rerank_score

\* C17: handed the non-empty candidates of HybridSearcher.search, the class
\* Reranker completes its rerank step without an error and returns at most
\* final_top_k of those candidates in non-increasing rerank_score order.
RerankerCompletesOnSearchResults ==
    [][(q_pc = "rerank" /\ q_reranker = "Reranker" /\ q_cands # <<>>) =>
           /\ q_pc' = "build"
           /\ Len(q_reranked') <= final_top_k
           /\ Range(q_reranked') \subseteq
                  {[c EXCEPT !.rerank_score = s] :
                      c \in {[chunk_id |-> q_cands[i].chunk_id,
                              rrf_score |-> q_cands[i].rrf_score,
                              metadata |-> q_cands[i].metadata,
                              text |-> q_cands[i].text,
                              rerank_score |-> 0] : i \in DOMAIN q_cands},
                      s \in 1..MaxScore}
           /\ ScoresNonIncreasing(q_reranked')]_vars

\* the same step with a reranker that scores the candidates' text field
PatchedRerankerCompletesOnSearchResults ==
    [][(q_pc = "rerank" /\ q_reranker = "patched" /\ q_cands # <<>>) =>
           /\ q_pc' = "build"
           /\ Len(q_reranked') <= final_top_k
           /\ ScoresNonIncreasing(q_reranked')]_vars

\* the caller's value where it is not null, else the extracted one
CallerFirst(given, extracted, none) == IF given # none THEN given ELSE extracted

\* C18: each of page_range, section_title and block_type returned by analyse
\* is the caller's value when the caller supplied one, whatever the question
\* yields, and otherwise the value extracted from the question, or null.
AnalyseKeepsCallerFilters ==
    a_pc = "returned" =>
        /\ a_out.page_range =
               CallerFirst(a_existing.filters.page_range,
                           extracted_page_range(a_question), NoPageRange)
        /\ a_out.section_title =
               CallerFirst(a_existing.filters.section_title,
                           extracted_section_title(a_question, a_titles), NoTitle)
        /\ a_out.block_type =
               CallerFirst(a_existing.filters.block_type,
                           extracted_block_type(a_question), NoBlockType)

\* the extracted value where there is one, else the caller's
ExtractedFirst(given, extracted, none) == IF extracted # none THEN extracted ELSE given

\* each field returned by analyse is the value extracted from the question
\* when there is one, and otherwise the caller's value, or null
AnalyseOverlaysExtracted ==
    a_pc = "returned" =>
        /\ a_out.page_range =
               ExtractedFirst(a_existing.filters.page_range,
                              extracted_page_range(a_question), NoPageRange)
        /\ a_out.section_title =
               ExtractedFirst(a_existing.filters.section_title,
                              extracted_section_title(a_question, a_titles), NoTitle)
        /\ a_out.block_type =
               ExtractedFirst(a_existing.filters.block_type,
                              extracted_block_type(a_question), NoBlockType)

\* with no value of the caller's in a field where the question yields one,
\* the two readings agree
AnalyseKeepsCallerFiltersNoConflict ==
    (/\ a_pc = "returned"
     /\ a_existing.filters.page_range = NoPageRange
            \/ extracted_page_range(a_question) = NoPageRange
     /\ a_existing.filters.section_title = NoTitle
            \/ extracted_section_title(a_question, a_titles) = NoTitle
     /\ a_existing.filters.block_type = NoBlockType
            \/ extracted_block_type(a_question) = NoBlockType) =>
        AnalyseKeepsCallerFilters

(***************************************************************************)
(* Claims about the job records (SpecIngest).                              *)
(***************************************************************************)
\* the jobs that have a record in jobs_db
Recorded == {j \in Jobs : jobs_db[j] # NoJob}

\* C19: every IngestionJob record has its progress within 0..100 and its
\* status among pending, processing, completed and failed, also after a
\* failed ingestion.
JobRecordsInRange ==
    \A j \in Recorded :
        /\ jobs_db[j].progress \in 0..100
        /\ jobs_db[j].status \in {"pending", "processing", "completed", "failed"}

\* what the records keep to: the four statuses, and a progress within 0..100
\* or the failure mark -1
JobRecordsInRangeOrFailureMark ==
    \A j \in Recorded :
        /\ jobs_db[j].progress \in (0..100) \cup {-1}
        /\ jobs_db[j].status \in {"pending", "processing", "completed", "failed"}

\* C20: with several jobs running, every step of job a's progress callback,
\* a progress report or a failure report, leaves the status, progress,
\* message and completed_at of every other job as they were.
ReportsChangeOwnRecordOnly ==
    [][\A a \in Jobs :
           cb_at'[a] # cb_at[a] =>
               \A k \in Jobs \ {a} : jobs_db'[k] = jobs_db[k]]_vars

\* one job has failed while the callback of the other, still processing, is
\* between its writes
OneFailedOtherReporting ==
    \E a, k \in Jobs :
        /\ a # k
        /\ jobs_db[a].status = "failed"
        /\ jobs_db[a].progress = -1
        /\ cb_at[k] = "status"
        /\ jobs_db[k].status = "processing"
        /\ jobs_db[k].progress \in 1..99

\* C21: a streaming call that breaks off after at least one fragment was
\* delivered, the fallback model not yet tried, sends its next upstream
\* request with the fallback model.
BrokenStreamRestartsWithFallback ==
    [][(/\ l_mode = "stream" /\ l_pc = "streaming"
        /\ l_model = "primary" /\ l_sent["fallback"] = 0
        /\ l_frag >= 1
        /\ l_pc' = "attempt") => l_model' = "fallback"]_vars

\* the restart goes to the fallback model only from the last attempt of the
\* primary model's retry loop; earlier attempts repeat the primary model
BrokenStreamRetriesPrimaryFirst ==
    [][(/\ l_mode = "stream" /\ l_pc = "streaming"
        /\ l_model = "primary"
        /\ l_frag >= 1
        /\ l_pc' = "attempt") =>
           /\ l_model' = IF l_attempt = max_retries - 1 THEN "fallback" ELSE "primary"
           /\ l_attempt' = IF l_attempt = max_retries - 1 THEN 0 ELSE l_attempt + 1
           /\ l_yield' = l_yield]_vars

\* a document of two pages, each a level-1 heading followed by one paragraph
IsTwoPageDoc(blocks) ==
    /\ Len(blocks) = 4
    /\ \A i \in {1, 3} : blocks[i].block_type = "heading" /\ blocks[i].heading_level = 1
    /\ \A i \in {2, 4} : blocks[i].block_type = "text"
    /\ blocks[1].page_number = 1 /\ blocks[2].page_number = 1
    /\ blocks[3].page_number = 2 /\ blocks[4].page_number = 2

\* the section paths the detector assigned
SectionsOf(blocks) == {blocks[i].section_path : i \in DOMAIN blocks}

\* the children form one chain of n chunks, indexed from 0, all near a heading
ChainOf(children, n) ==
    /\ Len(children) = n
    /\ \A i \in DOMAIN children :
           /\ children[i].metadata.total_chunks = n
           /\ children[i].metadata.chunk_index = i - 1
           /\ children[i].metadata.is_near_heading
           /\ children[i].metadata.prev_chunk_id =
                  IF i > 1 THEN children[i - 1].metadata.chunk_id ELSE NoId
           /\ children[i].metadata.next_chunk_id =
                  IF i < n THEN children[i + 1].metadata.chunk_id ELSE NoId

\* C22: a two-page document with one level-1 heading and one paragraph per
\* page yields 2 sections, exactly 2 parents and exactly 2 children with
\* total_chunks 2, chunk_index 0 and 1, linked by next/prev, both near a
\* heading.
TwoPageDocYieldsTwoChunks ==
    (c_pc = "finalized" /\ IsTwoPageDoc(c_blocks)) =>
        /\ Cardinality(SectionsOf(c_enriched)) = 2
        /\ Len(c_parents) = 2
        /\ ChainOf(c_children, 2)

\* with paragraphs that fit one child window the headings are chunks of
\* their own: 4 parents and one chain of 4 children
TwoPageDocYieldsFourChunks ==
    (/\ c_pc = "finalized" /\ IsTwoPageDoc(c_blocks)
     /\ Len(c_blocks[2].text) <= TokenWidth * child_chunk_size
     /\ Len(c_blocks[4].text) <= TokenWidth * child_chunk_size) =>
        /\ Len(c_parents) = 4
        /\ ChainOf(c_children, 4)

\* the artifacts of a document that a store record holds
ArtifactsOf(stored, doc_id) ==
    [points |-> stored.points \cap PointsOf(doc_id),
     bm25 |-> {f \in stored.bm25 : f[1] = doc_id},
     parents |-> stored.parents \cap ParentsOf(doc_id),
     pdfs |-> stored.pdfs \cap {doc_id}]

NoArtifacts == [points |-> {}, bm25 |-> {}, parents |-> {}, pdfs |-> {}]

\* C23: when delete_document has answered, either all three stores have the
\* document's artifacts removed (success) or none of them has (failure): a
\* failure never leaves an earlier store already emptied.
DeleteIsAtomic ==
    /\ d_pc = "returned" => ArtifactsOf(Stored, d_doc_id) = NoArtifacts
    /\ d_pc = "raised" => Stored = d_before

\* a successful request leaves no artifact of the document, and no request
\* touches the artifacts of another document
DeleteRemovesOwnArtifacts ==
    /\ d_pc = "returned" => ArtifactsOf(Stored, d_doc_id) = NoArtifacts
    /\ \A d \in Docs \ {d_doc_id} : ArtifactsOf(Stored, d) = ArtifactsOf(d_before, d)

\* the listings of all indexed documents
AllDocIds == {ids \in SeqsUpTo(Docs, Cardinality(Docs)) :
                 Range(ids) = Docs /\ Len(ids) = Cardinality(Docs)}

\* C24: a search without doc_ids covers all indexed documents in both arms:
\* it returns what a search over a listing of every indexed document returns,
\* the hits of the BM25 arm included.
NoDocIdsSearchesAllDocuments ==
    (s_pc = "done" /\ s_doc_ids = <<>>) =>
        \E ids \in AllDocIds :
            s_out = search(vs_points, fs_parents, s_has_fs, s_ranking, s_index, ids)

\* a search without doc_ids never asks the BM25 store: it returns the dense
\* arm's chunks only
NoDocIdsSearchIsDenseOnly ==
    (s_pc = "done" /\ s_doc_ids = <<>>) =>
        /\ s_out.stats.sparse_hits = 0
        /\ s_out.stats.dense_hits = Len(Take(s_ranking, dense_top_k))
        /\ Range(ResultIds) \subseteq Range(s_ranking)

\* the three index writes of run
IndexWrites == {"upsert", "bm25_build", "save_parent_chunks"}

\* C25: in every ingestion run the collaborator calls return in the fixed
\* order save, parse, detect, chunk, finalize, embed, upsert, BM25 build,
\* parent save; percent 100 is reported only after the three index writes
\* have returned; and the step that fails is the one after the last returned
\* step, no later step ever being run.
StepsRunInFixedOrder ==
    \A j \in Jobs :
        /\ steps_done[j] = Take(Steps, Len(steps_done[j]))
        /\ CompletionReported(j) => IndexWrites \subseteq Range(steps_done[j])
        /\ w_err[j] # "none" =>
              Append(steps_done[j], w_err[j]) = Take(Steps, Len(steps_done[j]) + 1)

\* one run has ended after its vector upsert raised, the other after all nine
\* steps returned
OneRunFailedAtUpsertOneRanAllSteps ==
    \E j, i \in Jobs :
        /\ w_pc[j] = "finished" /\ w_err[j] = "upsert" /\ Len(steps_done[j]) = 6
        /\ w_pc[i] = "finished" /\ w_err[i] = "none" /\ steps_done[i] = Steps

\* the token indices a list of windows covers
Covered(ranges) == UNION {ranges[k].s .. (ranges[k].e - 1) : k \in DOMAIN ranges}

\* the child windows of the parent windows, in the segment's token indices
ChildWindows(parent_ranges, size, overlap) ==
    UNION {{[s |-> parent_ranges[k].s + c.s, e |-> parent_ranges[k].s + c.e] :
               c \in Range(_get_token_ranges(parent_ranges[k].e - parent_ranges[k].s,
                                             size, overlap))} :
           k \in DOMAIN parent_ranges}

\* C26: for total_tokens >= 1 and 0 <= overlap < size the windows returned
\* start at 0, each later one starts size - overlap after the one before, all
\* but the last have size tokens, only the last ends at total_tokens, and
\* together they cover every token index; the child windows of these windows
\* cover every token index as well.
WindowsSlideAndCover ==
    (r_pc = "returned" /\ r_total_tokens >= 1 /\ r_overlap < r_size) =>
        /\ r_ranges # <<>>
        /\ r_ranges[1].s = 0
        /\ \A k \in 2..Len(r_ranges) : r_ranges[k].s = r_ranges[k - 1].s + (r_size - r_overlap)
        /\ \A k \in 1..(Len(r_ranges) - 1) :
              /\ r_ranges[k].e - r_ranges[k].s = r_size
              /\ r_ranges[k].e < r_total_tokens
        /\ Last(r_ranges).e = r_total_tokens
        /\ Covered(r_ranges) = 0..(r_total_tokens - 1)
        /\ r_ranges = _get_token_ranges(r_total_tokens, r_size, r_overlap)
        /\ \A size \in 1..MaxSize : \A overlap \in 0..(size - 1) :
              UNION {w.s .. (w.e - 1) : w \in ChildWindows(r_ranges, size, overlap)}
                  = 0..(r_total_tokens - 1)

\* a call has returned three overlapping windows, the last one clamped
ThreeOverlappingWindowsReturned ==
    /\ r_pc = "returned"
    /\ r_overlap >= 1 /\ r_overlap < r_size
    /\ Len(r_ranges) = 3
    /\ r_ranges[3].e - r_ranges[3].s < r_size

\* the titles a section path is joined from
StackOf(path) == IF path.some THEN path_parts(path.s) ELSE <<>>

\* the section path of the block before block i (null before the first)
PathBefore(blocks, i) == IF i = 1 THEN NonePath ELSE blocks[i - 1].section_path

\* C27: without a table of contents a heading of level L gets the path of
\* the stack cut to its first L-1 titles with the heading's text pushed, at
\* most L components ending with its own text; every other block gets the
\* path current at it, that of the most recent heading, null before the
\* first heading.
PathsFollowHeadingStack ==
    (c_toc = <<>> /\ c_enriched # <<>>) =>
        \A i \in DOMAIN c_enriched :
            /\ [c_enriched[i] EXCEPT !.section_path = NonePath] = c_blocks[i]
            /\ IF c_enriched[i].block_type = "heading"
               THEN /\ c_enriched[i].section_path =
                           PathOf(Append(Take(StackOf(PathBefore(c_enriched, i)),
                                              c_enriched[i].heading_level - 1),
                                         strip(c_enriched[i].text)))
                    /\ Len(StackOf(c_enriched[i].section_path)) <= c_enriched[i].heading_level
                    /\ Last(StackOf(c_enriched[i].section_path)) = strip(c_enriched[i].text)
               ELSE /\ c_enriched[i].section_path = PathBefore(c_enriched, i)
                    /\ (\A k \in 1..i : c_enriched[k].block_type # "heading") =>
                           c_enriched[i].section_path = NonePath

\* a level-2 heading under a level-1 heading, then a level-1 heading that
\* cuts the stack back
StackCutBackByHeading ==
    /\ c_toc = <<>> /\ c_pc = "detected"
    /\ Len(c_enriched) = 3
    /\ Len(StackOf(c_enriched[2].section_path)) = 2
    /\ c_enriched[3].block_type = "heading"
    /\ Len(StackOf(c_enriched[3].section_path)) = 1

\* C28: within one document, after chunk_document and finalize_chunks,
\* distinct child chunks have distinct authoritative chunk_ids.
ChildIdsDistinct ==
    c_pc = "finalized" =>
        \A i, k \in DOMAIN c_children :
            i # k => c_children[i].metadata.chunk_id # c_children[k].metadata.chunk_id

\* children of different parent windows have different ids as long as every
\* text segment fits one parent window
ChildIdsDistinctInShortSegments ==
    (/\ c_pc = "finalized"
     /\ \A i \in DOMAIN c_blocks :
            c_blocks[i].block_type = "text" =>
                Len(c_blocks[i].text) + 1 <= TokenWidth * child_chunk_size) =>
        \A i, k \in DOMAIN c_children :
            i # k => c_children[i].metadata.chunk_id # c_children[k].metadata.chunk_id

\* C29: for every size >= 1 and overlap >= 0, overlap >= size included, the
\* window loop of _get_token_ranges advances its start at every turn and the
\* call returns.
WindowLoopAdvances ==
    [][(r_pc = "loop" /\ r_pc' = "loop") => r_s' > r_s]_vars

\* every call of _get_token_ranges returns (a run whose list has grown past
\* MaxWindows is one that never leaves the loop)
WindowLoopTerminates == <>(r_pc = "returned")

\* with the overlap below the size the start advances at every turn
WindowLoopAdvancesWithSmallOverlap ==
    [][(r_pc = "loop" /\ r_pc' = "loop" /\ r_overlap < r_size) => r_s' > r_s]_vars

\* and the call returns
WindowLoopTerminatesWithSmallOverlap ==
    (r_pc = "loop" /\ r_overlap < r_size) ~> (r_pc = "returned")

\* the statuses in lifecycle order
StatusRank(status) ==
    CASE status = "absent" -> 0
      [] status = "pending" -> 1
      [] status = "processing" -> 2
      [] OTHER -> 3

\* the status of every job moves forward only and stays once it is completed
\* or failed
StatusMovesForward ==
    \A j \in Jobs :
        /\ StatusRank(jobs_db'[j].status) >= StatusRank(jobs_db[j].status)
        /\ jobs_db[j].status \in {"completed", "failed"} =>
               jobs_db'[j].status = jobs_db[j].status

\* C30: a job's status only moves forward through pending, processing and
\* then completed or failed, never changes once it is completed or failed,
\* and completed_at is set exactly when the status is completed.
StatusOneWayCompletedAtMatches ==
    /\ [][StatusMovesForward]_vars
    /\ [](\A j \in Jobs :
             (jobs_db[j].completed_at # "None") <=> (jobs_db[j].status = "completed"))

\* the lifecycle alone
StatusOneWay == [][StatusMovesForward]_vars

\* completed_at matches the status whenever the job's callback is not
\* between its writes
CompletedAtMatchesBetweenCallbacks ==
    \A j \in Jobs :
        cb_at[j] = "none" =>
            ((jobs_db[j].completed_at # "None") <=> (jobs_db[j].status = "completed"))

\* a status poll has returned an entry that is completed without completed_at
PollSawCompletedWithoutCompletedAt ==
    polled.found /\ polled.entry.status = "completed" /\ polled.entry.completed_at = "None"

====
